---------------------------- MODULE Spec2Model ----------------------------
(***************************************************************************)
(* A model of the external data synchronisation engine of src/main.py:     *)
(* the token-bucket RateLimiter, the retrying fetch_json, the import       *)
(* handlers and scheduled jobs, and the relational store they write.       *)
(*                                                                         *)
(* Time is counted in whole seconds.  Tokens of the limiter are counted in *)
(* tenths of a token (OneToken == 10), so that the floor rate of 0.1       *)
(* tokens per second is 1 unit per second.                                 *)
(***************************************************************************)
EXTENDS Integers, Sequences, FiniteSets, TLC

VARIABLES
    \* ---- RateLimiter (_limiter, src/main.py:264-284)
    qps,            \* self.qps, in units per second
    capacity,       \* self.capacity, in units
    tokens,         \* self.tokens, in units
    last,           \* self.last
    now,            \* time.monotonic()
    thr,            \* the threads inside acquire(): position and locals
    grants,         \* number of acquire() calls that have returned
    grantLog,       \* the time of each return of acquire(), in order
    \* ---- fetch_json (src/main.py:293-317)
    retry_max,      \* settings.http_retry_max
    retry_base,     \* settings.http_retry_base_seconds
    f,              \* the running call: position, attempt, backoff, response
    requests,       \* client.get calls of the running call
    acquires,       \* _limiter.acquire() calls of the running call
    delays,         \* the time.sleep arguments of the running call, in order
    \* ---- the relational store (src/main.py:43-104)
    drugs,          \* table drugs, in id order
    ingredients,    \* table drug_ingredients, in id order
    diagnoses,      \* table diagnoses, in id order; the id is the position
    synonyms,       \* table diagnosis_synonyms, in id order
    import_state,   \* table import_state: key -> value
    \* ---- the import handlers and jobs
    req,            \* the last handler or job run, with what the upstream gave it
    outcome,        \* how that run ended: its result, or the exception it raised
    runs,           \* handler and job runs so far
    \* ---- table import_state as rows (src/main.py:101-104, 833-845)
    state_rows,     \* the rows (key, value), in insertion order
    state_call,     \* the last _get_state or _set_state call and its result
    state_set,      \* for each key, the value of the last _set_state (None: never set)
    \* ---- the scheduler (src/scheduler.py:31-38)
    jobs,           \* for each job id: instances running, firings, runs started, firings skipped
    \* ---- repeated firings of run_label_enrich_job
    selected        \* the ndcs the label job has queried upstream so far

limiterVars == <<qps, capacity, tokens, last, now, thr, grants, grantLog>>
fetchVars == <<retry_max, retry_base, f, requests, acquires, delays>>
storeVars == <<drugs, ingredients, diagnoses, synonyms, import_state>>
runVars == <<req, outcome, runs>>
stateVars == <<state_rows, state_call, state_set>>
schedVars == <<jobs>>
enrichVars == <<selected>>
otherVars == <<stateVars, schedVars, enrichVars>>
vars == <<limiterVars, fetchVars, storeVars, runVars, otherVars>>

None == "None"

Min(a, b) == IF a <= b THEN a ELSE b
Max(a, b) == IF a >= b THEN a ELSE b

(***************************************************************************)
(* Bounds of the model.                                                    *)
(***************************************************************************)
MaxClock == 2       \* the clock of the concurrent limiter runs stops here
MaxCalls == 2       \* acquire() calls per thread
MaxRetry == 3       \* largest settings.http_retry_max tried
MaxBase == 2        \* largest settings.http_retry_base_seconds tried
MaxFetches == 2     \* fetch_json calls in a row

OneToken == 10      \* the literal 1 of acquire(), in units
QpsFloor == 1       \* the literal 0.1 of __init__, in units per second

Threads == {1, 2}

(***************************************************************************)
(* RateLimiter                                                             *)
(***************************************************************************)
\* __init__: the configured rate and burst, coerced
InitQps(cfgQps) == Max(cfgQps, QpsFloor)
InitCapacity(cfgBurst) == Max(cfgBurst, 1) * OneToken

\* line 276: the refilled token count
Refill(tok, elapsed) == Min(capacity, tok + elapsed * qps)
\* line 281
Needed(tok) == OneToken - tok
\* line 282: the sleep of needed / qps seconds, on the whole-second clock
SleepSeconds(needed) == (needed + qps - 1) \div qps

\* settings.rate_limit_qps in units per second and settings.rate_limit_burst
ConfiguredQps == {-5, 0, 5, 10}
ConfiguredBurst == {-1, 0, 1, 2}

IdleThread == [pc |-> "idle", now |-> 0, elapsed |-> 0, reg |-> 0, wake |-> 0, calls |-> 0]

\* the limiter as __init__ leaves it, for a configured rate and burst
NewLimiter(cfgQps, cfgBurst) ==
    [qps |-> InitQps(cfgQps), capacity |-> InitCapacity(cfgBurst),
     tokens |-> InitCapacity(cfgBurst), last |-> 0]

\* a thread calls acquire()
AcquireCall(t) ==
    /\ thr[t].pc = "idle"
    /\ thr[t].calls < MaxCalls
    /\ thr' = [thr EXCEPT ![t].pc = "l273", ![t].calls = @ + 1]
    /\ UNCHANGED <<qps, capacity, tokens, last, now, grants, grantLog>>
    /\ UNCHANGED <<fetchVars, storeVars, runVars, otherVars>>

\* line 273: now = time.monotonic()
AcquireNow(t) ==
    /\ thr[t].pc = "l273"
    /\ thr' = [thr EXCEPT ![t].pc = "l274", ![t].now = now]
    /\ UNCHANGED <<qps, capacity, tokens, last, now, grants, grantLog>>
    /\ UNCHANGED <<fetchVars, storeVars, runVars, otherVars>>

\* line 274: elapsed = now - self.last
AcquireElapsed(t) ==
    /\ thr[t].pc = "l274"
    /\ thr' = [thr EXCEPT ![t].pc = "l275", ![t].elapsed = thr[t].now - last]
    /\ UNCHANGED <<qps, capacity, tokens, last, now, grants, grantLog>>
    /\ UNCHANGED <<fetchVars, storeVars, runVars, otherVars>>

\* line 275: self.last = now
AcquireSetLast(t) ==
    /\ thr[t].pc = "l275"
    /\ last' = thr[t].now
    /\ thr' = [thr EXCEPT ![t].pc = "l276r"]
    /\ UNCHANGED <<qps, capacity, tokens, now, grants, grantLog>>
    /\ UNCHANGED <<fetchVars, storeVars, runVars, otherVars>>

\* line 276, the read of self.tokens
AcquireRefillRead(t) ==
    /\ thr[t].pc = "l276r"
    /\ thr' = [thr EXCEPT ![t].pc = "l276w", ![t].reg = tokens]
    /\ UNCHANGED <<qps, capacity, tokens, last, now, grants, grantLog>>
    /\ UNCHANGED <<fetchVars, storeVars, runVars, otherVars>>

\* line 276, the store to self.tokens
AcquireRefillWrite(t) ==
    /\ thr[t].pc = "l276w"
    /\ tokens' = Refill(thr[t].reg, thr[t].elapsed)
    /\ thr' = [thr EXCEPT ![t].pc = "l277"]
    /\ UNCHANGED <<qps, capacity, last, now, grants, grantLog>>
    /\ UNCHANGED <<fetchVars, storeVars, runVars, otherVars>>

\* line 277: if self.tokens >= 1
AcquireTest(t) ==
    /\ thr[t].pc = "l277"
    /\ thr' = [thr EXCEPT ![t].pc = IF tokens >= OneToken THEN "l278r" ELSE "l281"]
    /\ UNCHANGED <<qps, capacity, tokens, last, now, grants, grantLog>>
    /\ UNCHANGED <<fetchVars, storeVars, runVars, otherVars>>

\* line 278, the read of self.tokens
AcquireConsumeRead(t) ==
    /\ thr[t].pc = "l278r"
    /\ thr' = [thr EXCEPT ![t].pc = "l278w", ![t].reg = tokens]
    /\ UNCHANGED <<qps, capacity, tokens, last, now, grants, grantLog>>
    /\ UNCHANGED <<fetchVars, storeVars, runVars, otherVars>>

\* line 278, the store to self.tokens, and line 279: return
AcquireConsumeWrite(t) ==
    /\ thr[t].pc = "l278w"
    /\ tokens' = thr[t].reg - OneToken
    /\ grants' = grants + 1
    /\ grantLog' = Append(grantLog, now)
    /\ thr' = [thr EXCEPT ![t].pc = "idle"]
    /\ UNCHANGED <<qps, capacity, last, now>>
    /\ UNCHANGED <<fetchVars, storeVars, runVars, otherVars>>

\* lines 281-282: needed = 1 - self.tokens; time.sleep(needed / self.qps) begins
AcquireSleep(t) ==
    /\ thr[t].pc = "l281"
    /\ thr' = [thr EXCEPT ![t].pc = "l282", ![t].wake = now + SleepSeconds(Needed(tokens))]
    /\ UNCHANGED <<qps, capacity, tokens, last, now, grants, grantLog>>
    /\ UNCHANGED <<fetchVars, storeVars, runVars, otherVars>>

\* line 282: time.sleep returns, not before the time asked for; back to line 272
AcquireWake(t) ==
    /\ thr[t].pc = "l282"
    /\ now >= thr[t].wake
    /\ thr' = [thr EXCEPT ![t].pc = "l273"]
    /\ UNCHANGED <<qps, capacity, tokens, last, now, grants, grantLog>>
    /\ UNCHANGED <<fetchVars, storeVars, runVars, otherVars>>

\* a second passes
Tick ==
    /\ now < MaxClock
    /\ now' = now + 1
    /\ UNCHANGED <<qps, capacity, tokens, last, thr, grants, grantLog>>
    /\ UNCHANGED <<fetchVars, storeVars, runVars, otherVars>>

\* acquire() run by one caller with no other caller active: lines 272-282
\* repeated until line 279 returns.  The result is the limiter afterwards.
RECURSIVE AcquireSeq(_, _, _)
AcquireSeq(tok, lst, clock) ==
    LET refilled == Refill(tok, clock - lst)
    IN  IF refilled >= OneToken
        THEN [tokens |-> refilled - OneToken, last |-> clock, now |-> clock]
        ELSE AcquireSeq(refilled, clock, clock + SleepSeconds(Needed(refilled)))


\* Every caller inside acquire() is in time.sleep and none of the sleeps is
\* over: time passes until the first of them is.  time.monotonic() has no
\* fixed origin, only differences of its readings mean anything, so the
\* origin is moved along with the clock: now keeps its value and every
\* stored reading is lowered by the time that has passed.
Sleeping == {t \in Threads : thr[t].pc = "l282"}
FirstWake ==
    CHOOSE w \in {thr[t].wake : t \in Sleeping} : \A t \in Sleeping : w <= thr[t].wake
SleepThrough ==
    /\ now >= MaxClock
    /\ Sleeping # {}
    /\ \A t \in Threads : thr[t].pc \in {"idle", "l282"}
    /\ \A t \in Sleeping : thr[t].wake > now
    /\ last' = last - (FirstWake - now)
    /\ thr' = [t \in Threads |->
                 IF t \in Sleeping
                 THEN [thr[t] EXCEPT !.wake = @ - (FirstWake - now)]
                 ELSE thr[t]]
    /\ grantLog' = [i \in 1..Len(grantLog) |-> grantLog[i] - (FirstWake - now)]
    /\ UNCHANGED <<qps, capacity, tokens, now, grants>>
    /\ UNCHANGED <<fetchVars, storeVars, runVars, otherVars>>

\* the steps of a thread that is inside acquire()
Step(t) ==
    \/ AcquireNow(t)
    \/ AcquireElapsed(t)
    \/ AcquireSetLast(t)
    \/ AcquireRefillRead(t)
    \/ AcquireRefillWrite(t)
    \/ AcquireTest(t)
    \/ AcquireConsumeRead(t)
    \/ AcquireConsumeWrite(t)
    \/ AcquireSleep(t)
    \/ AcquireWake(t)

\* the concurrent callers of the shared _limiter
NextLimiter ==
    \/ \E t \in Threads :
          \/ AcquireCall(t)
          \/ AcquireNow(t)
          \/ AcquireElapsed(t)
          \/ AcquireSetLast(t)
          \/ AcquireRefillRead(t)
          \/ AcquireRefillWrite(t)
          \/ AcquireTest(t)
          \/ AcquireConsumeRead(t)
          \/ AcquireConsumeWrite(t)
          \/ AcquireSleep(t)
          \/ AcquireWake(t)
    \/ Tick

(***************************************************************************)
(* fetch_json                                                              *)
(***************************************************************************)
\* What one client.get can give: a status with its Retry-After header, a
\* 200 whose body is not JSON, or a transport failure (httpx.HTTPError).
\* "u00B2" is the one-character header value SUPERSCRIPT TWO.
Responses ==
    { [kind |-> k, ra |-> None] : k \in {"200", "200bad", "404", "neterr", "429", "503"} }
    \cup { [kind |-> "429", ra |-> r] : r \in {"", "0", "2", "soon", "u00B2"} }
    \cup { [kind |-> "503", ra |-> "2"] }

\* str.isdigit(): true of every character the Unicode database calls a digit
IsDigit(s) == s \in {"0", "2", "u00B2"}
\* float(): reads decimal digits only, and raises ValueError on anything else
FloatParses(s) == s \in {"0", "2"}
FloatOf(s) == CASE s = "0" -> 0 [] s = "2" -> 2
\* a Python string is true when it is neither None nor empty
Truthy(s) == s # None /\ s # ""

NoResponse == [kind |-> None, ra |-> None]

FetchIdle ==
    [pc |-> "idle", attempt |-> 0, backoff |-> 0, delay |-> 0, resp |-> NoResponse,
     outcome |-> None, hist |-> <<>>, calls |-> 0]

\* lines 293-296: the call begins its first attempt
FetchCall ==
    /\ f.pc \in {"idle", "done"}
    /\ f.calls < MaxFetches
    /\ f' = [FetchIdle EXCEPT !.pc = "acquire", !.attempt = 1, !.backoff = retry_base,
                              !.calls = f.calls + 1]
    /\ requests' = 0
    /\ acquires' = 0
    /\ delays' = <<>>
    /\ UNCHANGED <<limiterVars, retry_max, retry_base, storeVars, runVars, otherVars>>

\* line 297: _limiter.acquire()
FetchAcquire ==
    /\ f.pc = "acquire"
    /\ LET after == AcquireSeq(tokens, last, now)
       IN  /\ tokens' = after.tokens
           /\ last' = after.last
           /\ now' = after.now
           /\ grantLog' = Append(grantLog, after.now)
    /\ grants' = grants + 1
    /\ acquires' = acquires + 1
    /\ f' = [f EXCEPT !.pc = "request"]
    /\ UNCHANGED <<qps, capacity, thr, retry_max, retry_base, requests, delays,
                   storeVars, runVars, otherVars>>

\* line 303: whether float(ra) is evaluated, and whether it raises
ReadsRetryAfter(ra) == Truthy(ra) /\ IsDigit(ra)
RetryAfterRaises(ra) == ReadsRetryAfter(ra) /\ ~FloatParses(ra)
\* lines 300-303: the delay chosen after a 429 or 5xx
ThrottleDelay(ra, backoff) ==
    IF ReadsRetryAfter(ra) THEN FloatOf(ra) ELSE backoff

\* lines 299-317 up to the sleep, the return or the raise
FetchRequest(resp) ==
    /\ f.pc = "request"
    /\ requests' = requests + 1
    /\ f' = LET g == [f EXCEPT !.resp = resp, !.hist = Append(@, resp)]
            IN  CASE resp.kind \in {"429", "503"} ->
                        IF RetryAfterRaises(resp.ra)
                        THEN [g EXCEPT !.pc = "done", !.outcome = "ValueError"]
                        ELSE [g EXCEPT !.pc = "sleep",
                                       !.delay = ThrottleDelay(resp.ra, f.backoff)]
                  [] resp.kind = "200" ->
                        [g EXCEPT !.pc = "done", !.outcome = "payload"]
                  [] resp.kind = "200bad" ->
                        [g EXCEPT !.pc = "done", !.outcome = "JSONDecodeError"]
                  [] OTHER ->   \* raise_for_status or client.get raised httpx.HTTPError
                        IF f.attempt < retry_max
                        THEN [g EXCEPT !.pc = "sleep", !.delay = f.backoff]
                        ELSE [g EXCEPT !.pc = "done", !.outcome = "HTTPError"]
    /\ UNCHANGED <<limiterVars, retry_max, retry_base, acquires, delays, storeVars, runVars, otherVars>>

\* FetchSleep with the retry going straight to client.get, past line 297
FetchSleep_SkipAcquire ==
    /\ f.pc = "sleep"
    /\ now' = now + f.delay
    /\ delays' = Append(delays, f.delay)
    /\ f' = IF f.attempt < retry_max
            THEN [f EXCEPT !.pc = "request", !.attempt = @ + 1, !.backoff = 2 * @]
            ELSE [f EXCEPT !.pc = "done", !.backoff = 2 * @, !.outcome = "returns_None"]
    /\ UNCHANGED <<qps, capacity, tokens, last, thr, grants, grantLog, retry_max, retry_base,
                   requests, acquires, storeVars, runVars, otherVars>>

\* FetchSleep without the doubling of lines 306 and 315
FetchSleep_NoDouble ==
    /\ f.pc = "sleep"
    /\ now' = now + f.delay
    /\ delays' = Append(delays, f.delay)
    /\ f' = IF f.attempt < retry_max
            THEN [f EXCEPT !.pc = "acquire", !.attempt = @ + 1]
            ELSE [f EXCEPT !.pc = "done", !.outcome = "returns_None"]
    /\ UNCHANGED <<qps, capacity, tokens, last, thr, grants, grantLog, retry_max, retry_base,
                   requests, acquires, storeVars, runVars, otherVars>>

\* lines 305-307 and 314-316: time.sleep, backoff *= 2, continue; when the
\* range of line 296 is used up the function ends and returns None
FetchSleep ==
    /\ f.pc = "sleep"
    /\ now' = now + f.delay
    /\ delays' = Append(delays, f.delay)
    /\ f' = IF f.attempt < retry_max
            THEN [f EXCEPT !.pc = "acquire", !.attempt = @ + 1, !.backoff = 2 * @]
            ELSE [f EXCEPT !.pc = "done", !.backoff = 2 * @, !.outcome = "returns_None"]
    /\ UNCHANGED <<qps, capacity, tokens, last, thr, grants, grantLog, retry_max, retry_base,
                   requests, acquires, storeVars, runVars, otherVars>>

NextFetch ==
    \/ FetchCall
    \/ FetchAcquire
    \/ \E resp \in Responses : FetchRequest(resp)
    \/ FetchSleep

(***************************************************************************)
(* The store, and the values the upstream sends                            *)
(***************************************************************************)
\* a Python value that is None or the empty string is false
Falsy(s) == s = None \/ s = ""
\* a or b
Or(a, b) == IF Falsy(a) THEN b ELSE a

\* sep.join(seq)
RECURSIVE Join(_, _)
Join(seq, sep) ==
    IF seq = <<>> THEN ""
    ELSE IF Len(seq) = 1 THEN seq[1]
    ELSE seq[1] \o sep \o Join(Tail(seq), sep)

\* .first() of a query whose matching rows are at these positions: the
\* position of the first, or 0
First(matching) ==
    IF matching = {} THEN 0
    ELSE CHOOSE i \in matching : \A j \in matching : i <= j

\* a unique index over these keys, one for each row: no two are the same
Distinct(keys) ==
    \A i, j \in 1..Len(keys) : i < j => keys[i] # keys[j]

StateKeys ==
    {"openfda_ndc_skip", "stats:openfda_ndc", "stats:clinicaltables_conditions",
     "stats:job_openfda_ndc", "stats:job_openfda_label"}
NoValue == [set |-> FALSE]
Value(v) == [set |-> TRUE, v |-> v]

\* the whole store, as one value
Db ==
    [drugs |-> drugs, ingredients |-> ingredients, diagnoses |-> diagnoses,
     synonyms |-> synonyms, import_state |-> import_state]

\* _get_state: whether the key has a row (else the result is None), and its value
HasState(db, key) == db.import_state[key].set
GetState(db, key) == db.import_state[key].v
\* a write that lands on the row of the cursor as well, whatever the key
SetState_AnyRow(db, key, v) ==
    [[db EXCEPT !.import_state["openfda_ndc_skip"] = Value(0)]
        EXCEPT !.import_state[key] = Value(v)]

\* _set_state: insert the key or overwrite its value, and commit
SetState(db, key, v) == [db EXCEPT !.import_state[key] = Value(v)]

NoRequest == [op |-> None]

\* no call of _get_state or _set_state yet
NoStateCall == [op |-> None, key |-> None, value |-> None, result |-> None]

\* the ids of the two add_job calls (src/scheduler.py:34-35)
JobIds == {"ndc_import", "label_enrich"}
\* a job that has not fired
JobAtRest == [running |-> 0, fired |-> 0, started |-> 0, skipped |-> 0]

(***************************************************************************)
(* openFDA NDC records -> drugs, drug_ingredients                          *)
(***************************************************************************)
\* one element of "results": a JSON object with the fields the code reads,
\* or (shape "str") a JSON string, of which item.get raises AttributeError
RouteStr(r) == [list |-> FALSE, s |-> r, l |-> <<>>]
RouteList(l) == [list |-> TRUE, s |-> None, l |-> l]
NoIngredients == [t |-> "none", l |-> <<>>]
IngredientList(l) == [t |-> "list", l |-> l]
IngredientInt == [t |-> "int", l |-> <<>>]
Ingredient(name, strength) == [name |-> name, strength |-> strength]

NdcItem(ndc, brand, generic, labeler, dosage, route, ai) ==
    [shape |-> "dict", product_ndc |-> ndc, brand_name |-> brand,
     brand_name_base |-> None, generic_name |-> generic, labeler_name |-> labeler,
     manufacturer_name |-> <<>>, dosage_form |-> dosage, route |-> route,
     active_ingredients |-> ai]

\* lines 434 and 876
ProductName(item) ==
    Or(Or(Or(item.brand_name, item.brand_name_base), item.generic_name), "Unknown")
\* lines 436 and 878
Manufacturer(item) ==
    Or(Or(item.labeler_name, Join(item.manufacturer_name, ", ")), "")
\* lines 438-442 and 880-881
RouteOfAdministration(item) ==
    IF item.route.list THEN Join(item.route.l, ",") ELSE item.route.s

\* lines 462-472 and 892-899: a new DrugModel
NewDrug(item) ==
    [ndc |-> item.product_ndc,
     product_name |-> ProductName(item),
     generic_name |-> item.generic_name,
     manufacturer |-> Or(Manufacturer(item), ""),
     dosage_form |-> item.dosage_form,
     route_of_administration |-> RouteOfAdministration(item),
     indications_and_usage |-> None,
     adverse_reactions |-> None,
     warnings |-> None]

\* lines 451-458: import_openfda_ndc writes an existing row
MergeNdcEndpoint(row, item) ==
    [row EXCEPT !.product_name = ProductName(item),
                !.generic_name = item.generic_name,
                !.manufacturer = Or(Manufacturer(item), row.manufacturer),
                !.dosage_form = item.dosage_form,
                !.route_of_administration = RouteOfAdministration(item),
                !.indications_and_usage = None,
                !.adverse_reactions = None,
                !.warnings = None]

\* a merge that adds the incoming manufacturer to the stored one
MergeNdcJob_Accumulates(row, item) ==
    [row EXCEPT !.product_name = ProductName(item),
                !.generic_name = item.generic_name,
                !.manufacturer = row.manufacturer \o Manufacturer(item),
                !.dosage_form = item.dosage_form,
                !.route_of_administration = RouteOfAdministration(item)]

\* lines 884-888: run_ndc_import_job writes an existing row
MergeNdcJob(row, item) ==
    [row EXCEPT !.product_name = ProductName(item),
                !.generic_name = item.generic_name,
                !.manufacturer = Or(Manufacturer(item), row.manufacturer),
                !.dosage_form = item.dosage_form,
                !.route_of_administration = RouteOfAdministration(item)]

\* lines 449 and 882: the query sees the rows of the database, not the
\* objects the session has only added (SessionLocal has autoflush=False)
FindDrug(tbl, ndc) == First({i \in 1..Len(tbl) : tbl[i].ndc = ndc})

\* upsert with the filter on strength never matching a NULL strength
IngredientExists_NullNeverMatches(db, ndc, name, strength) ==
    \E i \in 1..Len(db.ingredients) :
        /\ db.ingredients[i].ndc = ndc
        /\ db.ingredients[i].name = name
        /\ strength # None
        /\ db.ingredients[i].strength = strength

\* lines 330-334: the query for (ndc, name, strength); strength == None is
\* rendered IS NULL
IngredientExists(db, ndc, name, strength) ==
    \E i \in 1..Len(db.ingredients) :
        /\ db.ingredients[i].ndc = ndc
        /\ db.ingredients[i].name = name
        /\ db.ingredients[i].strength = strength

\* lines 324-338: the loop over the ingredients of one record
RECURSIVE UpsertIngredientLoop(_, _, _, _)
UpsertIngredientLoop(db, pending, ndc, ings) ==
    IF ings = <<>> THEN pending
    ELSE LET ing == Head(ings)
             added ==
                 IF Falsy(ing.name) \/ IngredientExists(db, ndc, ing.name, ing.strength)
                 THEN pending
                 ELSE Append(pending, [ndc |-> ndc, name |-> ing.name,
                                       strength |-> ing.strength])
         IN  UpsertIngredientLoop(db, added, ndc, Tail(ings))

\* lines 321-338: upsert_drug_ingredients; a truthy value that cannot be
\* iterated (a JSON number) raises TypeError at line 324
UpsertDrugIngredients(db, S, ndc, ai) ==
    CASE ai.t = "int" -> [S |-> S, raised |-> TRUE]
      [] ai.t = "list" ->
            [S |-> [S EXCEPT !.newIngs = UpsertIngredientLoop(db, @, ndc, ai.l)],
             raised |-> FALSE]
      [] OTHER -> [S |-> S, raised |-> FALSE]

\* the session of one request or job run: the rows it has loaded, with the
\* changes made to them, the objects it has added, and the counters
NewSession(db) ==
    [tbl |-> db.drugs, newDrugs |-> <<>>, newIngs |-> <<>>,
     imported |-> 0, updated |-> 0, skipped |-> 0, errors |-> <<>>, raised |-> None]

\* lines 429-480: one record in import_openfda_ndc, inside its try/except
NdcEndpointItem(db, S, item) ==
    IF item.shape # "dict"
    THEN [S EXCEPT !.errors = Append(@, "AttributeError"), !.skipped = @ + 1]
    ELSE IF Falsy(item.product_ndc)
    THEN [S EXCEPT !.skipped = @ + 1]
    ELSE LET i == FindDrug(S.tbl, item.product_ndc)
             S1 == IF i > 0
                   THEN [S EXCEPT !.tbl[i] = MergeNdcEndpoint(@, item),
                                  !.updated = @ + 1]
                   ELSE [S EXCEPT !.newDrugs = Append(@, NewDrug(item)),
                                  !.imported = @ + 1]
             u == UpsertDrugIngredients(db, S1, item.product_ndc, item.active_ingredients)
         IN  IF u.raised
             THEN [u.S EXCEPT !.errors = Append(@, "TypeError"), !.skipped = @ + 1]
             ELSE u.S

\* lines 872-901: one record in run_ndc_import_job, which has no try/except:
\* an exception ends the loop and the job
NdcJobItem(db, S, item) ==
    IF S.raised # None THEN S
    ELSE IF item.shape # "dict"
    THEN [S EXCEPT !.raised = "AttributeError"]
    ELSE IF Falsy(item.product_ndc)
    THEN S
    ELSE LET i == FindDrug(S.tbl, item.product_ndc)
             S1 == IF i > 0
                   THEN [S EXCEPT !.tbl[i] = MergeNdcJob(@, item), !.updated = @ + 1]
                   ELSE [S EXCEPT !.newDrugs = Append(@, NewDrug(item)),
                                  !.imported = @ + 1]
             u == UpsertDrugIngredients(db, S1, item.product_ndc, item.active_ingredients)
         IN  IF u.raised THEN [u.S EXCEPT !.raised = "TypeError"] ELSE u.S

\* line 429: for item in results
RECURSIVE NdcEndpointLoop(_, _, _)
NdcEndpointLoop(db, S, page) ==
    IF page = <<>> THEN S
    ELSE NdcEndpointLoop(db, NdcEndpointItem(db, S, Head(page)), Tail(page))

\* line 872: for item in results
RECURSIVE NdcJobLoop(_, _, _)
NdcJobLoop(db, S, page) ==
    IF page = <<>> THEN S
    ELSE NdcJobLoop(db, NdcJobItem(db, S, Head(page)), Tail(page))

\* the unique index on drugs.ndc (line 46) and ix_drug_ingr_ndc_name_strength
\* (line 88), in which rows with a NULL strength never collide
DrugKeys(tbl) == [i \in 1..Len(tbl) |-> tbl[i].ndc]
HasStrength(r) == r.strength # None
IngredientKeys(ings) ==
    LET indexed == SelectSeq(ings, HasStrength)
    IN  [i \in 1..Len(indexed) |-> <<indexed[i].ndc, indexed[i].name, indexed[i].strength>>]
DrugConstraintsHold(tbl, ings) ==
    /\ Distinct(DrugKeys(tbl))
    /\ Distinct(IngredientKeys(ings))

\* a commit that fails and keeps the changes made to the rows already stored
CommitDrugs_Partial(db, S, env) ==
    IF env = "commit_fails" \/ ~DrugConstraintsHold(S.tbl \o S.newDrugs, db.ingredients \o S.newIngs)
    THEN [db |-> [db EXCEPT !.drugs = S.tbl], raised |-> "IntegrityError"]
    ELSE [db |-> [db EXCEPT !.drugs = S.tbl \o S.newDrugs,
                            !.ingredients = db.ingredients \o S.newIngs],
          raised |-> None]

\* lines 481 and 902: db.commit() of the page.  The result is the store
\* afterwards, or the exception: IntegrityError when a unique index refuses
\* a row, OperationalError when the database fails (env)
CommitDrugs(db, S, env) ==
    LET tbl == S.tbl \o S.newDrugs
        ings == db.ingredients \o S.newIngs
    IN  IF env = "commit_fails" THEN [db |-> db, raised |-> "OperationalError"]
        ELSE IF ~DrugConstraintsHold(tbl, ings)
        THEN [db |-> db, raised |-> "IntegrityError"]
        ELSE [db |-> [db EXCEPT !.drugs = tbl, !.ingredients = ings], raised |-> None]

\* the whole error list
FirstFive_All(errors) == errors

\* errors[:5]
FirstFive(errors) == SubSeq(errors, 1, Min(5, Len(errors)))

\* lines 404-496: import_openfda_ndc, given what fetch_json did
ImportOpenfdaNdcRun(db, call) ==
    IF call.fetched = "HTTPError" THEN [db |-> db, outcome |-> "HTTPException 502"]
    ELSE IF call.fetched = "returns_None" THEN [db |-> db, outcome |-> "AttributeError"]
    ELSE LET S == NdcEndpointLoop(db, NewSession(db), call.page)
             c == CommitDrugs(db, S, call.env)
             stats == [source |-> "openfda_ndc", received |-> Len(call.page),
                       imported |-> S.imported, updated |-> S.updated,
                       skipped |-> S.skipped, errors |-> FirstFive(S.errors)]
         IN  IF c.raised # None THEN [db |-> c.db, outcome |-> c.raised]
             ELSE IF call.env = "state_fails" THEN [db |-> c.db, outcome |-> "ok"]
             ELSE [db |-> SetState(c.db, "stats:openfda_ndc", stats), outcome |-> "ok"]

\* settings.openfda_ndc_limit
openfda_ndc_limit == 2

\* the cursor that never goes back to the start
NextSkip_NoWrap(skip, received, limit) == skip + received

\* line 905: the cursor after a page of received records, limit being asked for
NextSkip(skip, received, limit) == IF received < limit THEN 0 ELSE skip + received

\* a failed fetch that moves the cursor on all the same
JobFetchFailed_Advances(db, call) ==
    [db |-> SetState(db, "openfda_ndc_skip", openfda_ndc_limit), outcome |-> "job_failed"]

\* lines 862-868: the fetch of the job did not give a page.  An exception of
\* fetch_json is logged and the job returns; the None that fetch_json
\* returns after its last throttled attempt makes data.get raise.
JobFetchFailed(db, call) ==
    [db |-> db,
     outcome |-> IF call.fetched = "HTTPError" THEN "job_failed" ELSE "AttributeError"]

\* a run that stops before its commit and has written the cursor already
JobNotCommitted_CursorFirst(db, next_skip, how) ==
    [db |-> SetState(db, "openfda_ndc_skip", next_skip), outcome |-> how]

\* lines 872-902: the run stops before the commit of line 902 is done (an
\* exception in the loop, a commit that raises, the process killed): the
\* session is closed, or lost, with nothing of the page written
JobNotCommitted(db, next_skip, how) == [db |-> db, outcome |-> how]

\* lines 848-911: run_ndc_import_job, given what fetch_json did and where the
\* run ends: env says whether the commit of line 902, the _set_state of line
\* 906 or the one of line 908 raises, or the process is killed before the
\* commit, between the commit and line 906, or between lines 906 and 908.
\* The cursor is kept as the number that str() writes and int() reads back.
RunNdcImportJobRun(db, call) ==
    LET limit == Min(openfda_ndc_limit, 100)
        skip == IF HasState(db, "openfda_ndc_skip")
                THEN GetState(db, "openfda_ndc_skip") ELSE 0
    IN  IF call.fetched # "page" THEN JobFetchFailed(db, call)
        ELSE LET S == NdcJobLoop(db, NewSession(db), call.page)
                 c == CommitDrugs(db, S, call.env)
                 received == Len(call.page)
                 next_skip == NextSkip(skip, received, limit)
                 stats == [received |-> received, imported |-> S.imported,
                           updated |-> S.updated, skip |-> next_skip]
                 moved == SetState(c.db, "openfda_ndc_skip", next_skip)
             IN  IF S.raised # None THEN JobNotCommitted(db, next_skip, S.raised)
                 ELSE IF call.env = "crash_before_commit"
                 THEN JobNotCommitted(db, next_skip, "killed")
                 ELSE IF c.raised # None THEN JobNotCommitted(c.db, next_skip, c.raised)
                 ELSE IF call.env = "crash_after_commit"
                 THEN [db |-> c.db, outcome |-> "killed"]
                 ELSE IF call.env = "state_fails"
                 THEN [db |-> c.db, outcome |-> "OperationalError"]
                 ELSE IF call.env = "crash_after_cursor"
                 THEN [db |-> moved, outcome |-> "killed"]
                 ELSE IF call.env = "stats_fails"
                 THEN [db |-> moved, outcome |-> "OperationalError"]
                 ELSE [db |-> SetState(moved, "stats:job_openfda_ndc", stats),
                       outcome |-> "ok"]

(***************************************************************************)
(* ClinicalTables conditions -> diagnoses, diagnosis_synonyms              *)
(***************************************************************************)
\* A JSON string is written as its comma-separated pieces, so "a, b" is
\* <<"a", " b">> and "" is <<"">>: value.split(",") is the sequence itself.
Str(pieces) == pieces
\* s.strip() on the pieces the upstream sends here
Strip(piece) ==
    CASE piece = " " -> ""
      [] piece = " I10" -> "I10"
      [] piece = " flu" -> "flu"
      [] OTHER -> piece
\* bool(value) of a JSON string
TruthyStr(str) == str # <<"">>

\* a value of an extra field: null (or a position past the end of its list),
\* a string, or a list of strings
JsonNone == [t |-> "none", v |-> <<>>]
JsonStr(str) == [t |-> "str", v |-> <<str>>]
JsonList(strs) == [t |-> "list", v |-> strs]

\* lines 571-584
first_code(value) ==
    CASE value.t = "none" -> None
      [] value.t = "list" ->
            IF value.v = <<>> THEN None
            ELSE IF TruthyStr(value.v[1]) THEN Strip(value.v[1][1]) ELSE None
      [] value.t = "str" ->
            IF TruthyStr(value.v[1]) THEN Strip(value.v[1][1]) ELSE None
      [] OTHER -> None

\* the pieces of a string, stripped, without the empty ones
RECURSIVE StripPieces(_)
StripPieces(pieces) ==
    IF pieces = <<>> THEN <<>>
    ELSE IF Strip(Head(pieces)) = "" THEN StripPieces(Tail(pieces))
    ELSE <<Strip(Head(pieces))>> \o StripPieces(Tail(pieces))

\* str(v) of the truthy elements of a list
RECURSIVE TruthyStrings(_)
TruthyStrings(strs) ==
    IF strs = <<>> THEN <<>>
    ELSE IF TruthyStr(Head(strs))
    THEN <<Join(Head(strs), ",")>> \o TruthyStrings(Tail(strs))
    ELSE TruthyStrings(Tail(strs))

\* lines 586-594; the result is [none |-> TRUE] for None, else the list
normalize_synonyms(value) ==
    CASE value.t = "list" -> [none |-> FALSE, l |-> TruthyStrings(value.v)]
      [] value.t = "str" -> [none |-> FALSE, l |-> StripPieces(value.v[1])]
      [] OTHER -> [none |-> TRUE, l |-> <<>>]

\* lines 250-253
list_to_csv(items) == IF items.none THEN None ELSE Join(items.l, ",")

\* the synonyms query of line 347 sees the rows the session has flushed
SynonymExists(flushed, diagnosis_id, syn) ==
    \E i \in 1..Len(flushed) :
        flushed[i].diagnosis_id = diagnosis_id /\ flushed[i].synonym = syn

\* lines 341-352: upsert_diagnosis_synonyms
RECURSIVE upsert_diagnosis_synonyms(_, _, _)
upsert_diagnosis_synonyms(S, diagnosis_id, syns) ==
    IF syns = <<>> THEN S
    ELSE LET syn == Head(syns)
             S1 == IF Falsy(syn) \/ SynonymExists(S.flushedSyn, diagnosis_id, syn)
                   THEN S
                   ELSE [S EXCEPT !.pendingSyn =
                            Append(@, [diagnosis_id |-> diagnosis_id, synonym |-> syn])]
         IN  upsert_diagnosis_synonyms(S1, diagnosis_id, Tail(syns))

\* uq_diag_synonym (line 97)
SynonymKeys(syns) == [i \in 1..Len(syns) |-> <<syns[i].diagnosis_id, syns[i].synonym>>]
SynonymConstraintHolds(syns) == Distinct(SynonymKeys(syns))

\* the session of one conditions import: the diagnoses it sees, the synonym
\* rows written to the database in its transaction, the synonym objects added
\* and not yet flushed, and whether a flush has failed
NewDiagSession(db) ==
    [tbl |-> db.diagnoses, flushedSyn |-> db.synonyms, pendingSyn |-> <<>>,
     failed |-> FALSE, imported |-> 0, updated |-> 0, skipped |-> 0, errors |-> <<>>]

\* db.flush(): writes what is pending; a synonym that repeats a row is
\* refused, the transaction is rolled back and the session stays unusable
\* until rollback()
Flush(S) ==
    IF SynonymConstraintHolds(S.flushedSyn \o S.pendingSyn)
    THEN [S EXCEPT !.flushedSyn = @ \o S.pendingSyn, !.pendingSyn = <<>>]
    ELSE [S EXCEPT !.failed = TRUE]

FindDiagnosis(tbl, name, icd10) ==
    First({i \in 1..Len(tbl) : tbl[i].condition_name = name /\ tbl[i].icd10_code = icd10})

\* lines 596-632: one item of the page, inside its try/except
ConditionItem(S, entry) ==
    LET name == entry.name
        icd10_code == first_code(entry.icd10)
        icd9_code == first_code(entry.icd9)
        syns == normalize_synonyms(entry.synonyms)
        raise(T, ex) == [T EXCEPT !.errors = Append(@, ex), !.skipped = @ + 1]
    IN  IF Falsy(name) \/ Falsy(icd10_code) THEN [S EXCEPT !.skipped = @ + 1]
        ELSE IF S.failed THEN raise(S, "PendingRollbackError")
        ELSE LET i == FindDiagnosis(S.tbl, name, icd10_code) IN
             IF i > 0
             THEN LET S1 == [S EXCEPT
                               !.tbl[i].icd9_code = Or(icd9_code, @),
                               !.tbl[i].synonyms = Or(list_to_csv(syns), @),
                               !.updated = @ + 1]
                  IN  upsert_diagnosis_synonyms(S1, i, syns.l)
             ELSE LET obj == [condition_name |-> name, icd10_code |-> icd10_code,
                              icd9_code |-> icd9_code,
                              synonyms |-> list_to_csv(syns),
                              description |-> None]
                      S1 == Flush(S)
                      S2 == [S1 EXCEPT !.tbl = Append(@, obj), !.imported = @ + 1]
                  IN  IF S1.failed THEN raise(S1, "IntegrityError")
                      ELSE upsert_diagnosis_synonyms(S2, Len(S2.tbl), syns.l)

\* line 596: for i, name in enumerate(items)
RECURSIVE ConditionLoop(_, _)
ConditionLoop(S, page) ==
    IF page = <<>> THEN S
    ELSE ConditionLoop(ConditionItem(S, Head(page)), Tail(page))

\* line 634: db.commit()
CommitDiagnoses(db, S, env) ==
    LET F == Flush(S)
    IN  IF S.failed THEN [db |-> db, raised |-> "PendingRollbackError"]
        ELSE IF env = "commit_fails" THEN [db |-> db, raised |-> "OperationalError"]
        ELSE IF F.failed THEN [db |-> db, raised |-> "IntegrityError"]
        ELSE [db |-> [db EXCEPT !.diagnoses = F.tbl, !.synonyms = F.flushedSyn],
              raised |-> None]

\* lines 535-649: import_clinicaltables_conditions, given what fetch_json did
ImportClinicaltablesConditionsRun(db, call) ==
    IF call.fetched = "HTTPError" THEN [db |-> db, outcome |-> "HTTPException 502"]
    ELSE IF call.fetched \in {"returns_None", "not_a_list"}
    THEN [db |-> db, outcome |-> "HTTPException 500"]
    ELSE LET S == ConditionLoop(NewDiagSession(db), call.page)
             c == CommitDiagnoses(db, S, call.env)
             stats == [source |-> "clinicaltables_conditions",
                       received |-> Len(call.page),
                       imported |-> S.imported, updated |-> S.updated,
                       skipped |-> S.skipped, errors |-> FirstFive(S.errors)]
         IN  IF c.raised # None THEN [db |-> c.db, outcome |-> c.raised]
             ELSE IF call.env = "state_fails" THEN [db |-> c.db, outcome |-> "ok"]
             ELSE [db |-> SetState(c.db, "stats:clinicaltables_conditions", stats),
                   outcome |-> "ok"]

(***************************************************************************)
(* openFDA label documents -> the label fields of drugs                    *)
(***************************************************************************)
\* a label field of a document: absent, a string, or a list of strings
RawNone == [t |-> "none", l |-> <<>>]
RawStr(str) == [t |-> "str", l |-> <<str>>]
RawList(l) == [t |-> "list", l |-> l]

\* lines 937-942 and 1137-1142
extract_text(value) ==
    LET NotEmpty(x) == ~Falsy(x)
    IN  CASE value.t = "none" -> None
          [] value.t = "list" -> Join(SelectSeq(value.l, NotEmpty), "\n\n")
          [] OTHER -> value.l[1]

\* lines 943-951 and 1154-1168: the fields of the document that have a text
\* are written, the others are left as they are
EnrichLabel(row, doc) ==
    LET indications == extract_text(doc.indications_and_usage)
        adverse == extract_text(doc.adverse_reactions)
        warnings_text == Or(extract_text(doc.warnings),
                            extract_text(doc.warnings_and_cautions))
    IN  [row EXCEPT
           !.indications_and_usage = IF Falsy(indications) THEN @ ELSE indications,
           !.adverse_reactions = IF Falsy(adverse) THEN @ ELSE adverse,
           !.warnings = IF Falsy(warnings_text) THEN @ ELSE warnings_text]

NewLabelSession(db) ==
    [tbl |-> db.drugs, enriched |-> 0, attempted |-> 0, skipped |-> 0, errors |-> <<>>]

\* lines 1158-1171: for n in ndcs
RECURSIVE LabelNdcLoop(_, _, _)
LabelNdcLoop(S, doc, ndcs) ==
    IF ndcs = <<>> THEN S
    ELSE LET i == FindDrug(S.tbl, Head(ndcs))
             S1 == IF i = 0 THEN S
                   ELSE [S EXCEPT !.tbl[i] = EnrichLabel(@, doc), !.enriched = @ + 1]
         IN  LabelNdcLoop(S1, doc, Tail(ndcs))

\* lines 1144-1174: one document in import_openfda_label
LabelEndpointItem(S, doc, ndc) ==
    IF doc.shape # "dict"
    THEN [S EXCEPT !.errors = Append(@, "AttributeError"), !.skipped = @ + 1]
    ELSE LET listed == doc.product_ndc
             ndcs == IF ~Falsy(ndc) /\ ~(\E k \in 1..Len(listed) : listed[k] = ndc)
                     THEN <<ndc>> ELSE listed
         IN  IF ndcs = <<>> THEN [S EXCEPT !.skipped = @ + 1]
             ELSE LabelNdcLoop(S, doc, ndcs)

RECURSIVE LabelEndpointLoop(_, _, _)
LabelEndpointLoop(S, docs, ndc) ==
    IF docs = <<>> THEN S
    ELSE LabelEndpointLoop(LabelEndpointItem(S, Head(docs), ndc), Tail(docs), ndc)

\* lines 1107-1185: import_openfda_label, given what fetch_json did
ImportOpenfdaLabelRun(db, call) ==
    IF Falsy(call.ndc) /\ Falsy(call.search)
    THEN [db |-> db, outcome |-> "HTTPException 400"]
    ELSE IF call.fetched = "HTTPError" THEN [db |-> db, outcome |-> "HTTPException 502"]
    ELSE IF call.fetched = "returns_None" THEN [db |-> db, outcome |-> "AttributeError"]
    ELSE LET S == LabelEndpointLoop(NewLabelSession(db), call.docs, call.ndc)
         IN  IF call.env = "commit_fails" THEN [db |-> db, outcome |-> "OperationalError"]
             ELSE [db |-> [db EXCEPT !.drugs = S.tbl], outcome |-> "ok"]

\* settings.openfda_label_enrich_batch
openfda_label_enrich_batch == 1

\* lines 920-922: the rows with a label field that IS NULL
MissingLabel(db) ==
    {i \in 1..Len(db.drugs) :
        \/ db.drugs[i].indications_and_usage = None
        \/ db.drugs[i].adverse_reactions = None
        \/ db.drugs[i].warnings = None}

\* .limit(batch).all() has no ORDER BY: any batch of the rows, in any order
CandidateBatches(db) ==
    LET n == Min(openfda_label_enrich_batch, Cardinality(MissingLabel(db)))
    IN  {q \in [1..n -> MissingLabel(db)] : \A a, b \in 1..n : a # b => q[a] # q[b]}

\* lines 925-955: one candidate, inside its try/except
LabelJobItem(S, i, fetch) ==
    LET S1 == [S EXCEPT !.attempted = @ + 1]
    IN  IF fetch.fetched # "page" THEN S1
        ELSE IF fetch.docs = <<>> THEN S1
        ELSE IF fetch.docs[1].shape # "dict" THEN S1
        ELSE [S1 EXCEPT !.tbl[i] = EnrichLabel(@, fetch.docs[1]), !.enriched = @ + 1]

RECURSIVE LabelJobLoop(_, _, _)
LabelJobLoop(S, candidates, fetches) ==
    IF candidates = <<>> THEN S
    ELSE LabelJobLoop(LabelJobItem(S, Head(candidates), Head(fetches)),
                      Tail(candidates), Tail(fetches))

\* lines 914-961: run_label_enrich_job, given its candidates and what
\* fetch_json did for each
RunLabelEnrichJobRun(db, call) ==
    LET S == LabelJobLoop(NewLabelSession(db), call.candidates, call.fetches)
        stats == [attempted |-> S.attempted, enriched |-> S.enriched]
    IN  IF call.env = "commit_fails" THEN [db |-> db, outcome |-> "OperationalError"]
        ELSE IF call.env = "state_fails"
        THEN [db |-> [db EXCEPT !.drugs = S.tbl], outcome |-> "OperationalError"]
        ELSE [db |-> SetState([db EXCEPT !.drugs = S.tbl], "stats:job_openfda_label", stats),
              outcome |-> "ok"]

(***************************************************************************)
(* What the upstreams send, and the import operations as actions           *)
(***************************************************************************)
MaxRuns == 3        \* import requests and job runs in a row

NdcFull ==
    NdcItem("n1", "Brand1", "Gen1", "Lab1", "TABLET", RouteList(<<"ORAL", "TOPICAL">>),
            IngredientList(<<Ingredient("A", "5mg")>>))
NdcSparse == NdcItem("n1", None, None, None, None, RouteStr(None), NoIngredients)
NdcNullStrength ==
    NdcItem("n2", "Brand2", None, "Lab2", None, RouteStr("ORAL"),
            IngredientList(<<Ingredient("B", None), Ingredient("", "1mg")>>))
NdcRepeatedIngredient ==
    NdcItem("n2", "Brand2", None, "Lab2", None, RouteStr("ORAL"),
            IngredientList(<<Ingredient("A", "5mg"), Ingredient("A", "5mg")>>))
NdcBaseName ==
    [NdcItem("n2", None, "Gen2", None, "CAPSULE", RouteStr(None), NoIngredients)
        EXCEPT !.brand_name_base = "Base2", !.manufacturer_name = <<"M1", "M2">>]
NdcNoKey == NdcItem(None, "Brand3", None, None, None, RouteStr(None), NoIngredients)
NdcNotADict == [NdcNoKey EXCEPT !.shape = "str"]
NdcIntIngredients ==
    NdcItem("n2", "Brand2", None, "Lab2", None, RouteStr("ORAL"), IngredientInt)

\* a page of which more than five records raise
NdcSixMalformed ==
    <<NdcNotADict, NdcNotADict, NdcNotADict, NdcNotADict, NdcNotADict, NdcNotADict>>

NdcPages ==
    {<<>>, NdcSixMalformed, <<NdcFull>>, <<NdcSparse>>, <<NdcNullStrength>>, <<NdcRepeatedIngredient>>,
     <<NdcFull, NdcNullStrength>>, <<NdcFull, NdcFull>>, <<NdcFull, NdcSparse>>,
     <<NdcSparse, NdcFull>>, <<NdcBaseName, NdcNoKey>>, <<NdcNotADict, NdcFull>>,
     <<NdcFull, NdcIntIngredients>>}

\* what fetch_json did, and whether the database then takes the writes
PageCall(page, env) == [fetched |-> "page", page |-> page, env |-> env]
FailedCall(how) == [fetched |-> how, page |-> <<>>, env |-> "ok"]
NdcCalls ==
    {PageCall(page, "ok") : page \in NdcPages}
        \cup {PageCall(<<NdcFull, NdcNullStrength>>, env) : env \in {"commit_fails", "state_fails"}}
        \cup {FailedCall("HTTPError"), FailedCall("returns_None")}

\* the ways a run of the job can end short of its last line
JobEnds ==
    {"stats_fails", "crash_before_commit", "crash_after_commit", "crash_after_cursor"}
NdcJobCalls ==
    NdcCalls \cup {PageCall(<<NdcFull, NdcNullStrength>>, env) : env \in JobEnds}

DiagEntry(name, icd10, icd9, syn) ==
    [name |-> name, icd10 |-> icd10, icd9 |-> icd9, synonyms |-> syn]
DiagFull ==
    DiagEntry("Flu", JsonStr(Str(<<"J10", " J11">>)), JsonList(<<Str(<<"487">>)>>),
              JsonStr(Str(<<"influenza", " flu", " ">>)))
DiagSparse == DiagEntry("Flu", JsonList(<<Str(<<"J10">>)>>), JsonNone, JsonNone)
DiagSameSynonym ==
    DiagEntry("Flu", JsonStr(Str(<<"J10">>)), JsonStr(Str(<<"">>)),
              JsonList(<<Str(<<"flu">>), Str(<<"">>)>>))
DiagNoCode == DiagEntry("Cold", JsonStr(Str(<<" ">>)), JsonNone, JsonNone)
DiagNoName == DiagEntry("", JsonStr(Str(<<"J00">>)), JsonNone, JsonNone)
DiagRepeatedSynonym ==
    DiagEntry("HTN", JsonStr(Str(<<" I10">>)), JsonNone, JsonStr(Str(<<"hbp", "hbp">>)))

DiagPages ==
    {<<>>, <<DiagFull>>, <<DiagSparse>>, <<DiagSameSynonym>>, <<DiagRepeatedSynonym>>,
     <<DiagSparse, DiagFull>>, <<DiagFull, DiagSameSynonym>>, <<DiagSparse, DiagSparse>>,
     <<DiagNoCode, DiagNoName>>, <<DiagRepeatedSynonym, DiagFull>>}
DiagCalls ==
    {PageCall(page, "ok") : page \in DiagPages}
        \cup {PageCall(<<DiagFull>>, env) : env \in {"commit_fails", "state_fails"}}
        \cup {FailedCall("HTTPError"), FailedCall("returns_None"), FailedCall("not_a_list")}

LabelDoc(ndcs, indications, adverse, warn, cautions) ==
    [shape |-> "dict", product_ndc |-> ndcs, indications_and_usage |-> indications,
     adverse_reactions |-> adverse, warnings |-> warn, warnings_and_cautions |-> cautions]
LabelFull ==
    LabelDoc(<<"n1">>, RawStr("Ind1"), RawList(<<"Adv1", "", "Adv2">>), RawNone,
             RawStr("Caution1"))
LabelSparse == LabelDoc(<<"n1", "n2">>, RawNone, RawList(<<>>), RawStr("Warn2"), RawNone)
LabelNoNdc == LabelDoc(<<>>, RawStr("Ind3"), RawNone, RawNone, RawNone)
LabelNotADict == [LabelNoNdc EXCEPT !.shape = "str"]

LabelFetch(fetched, docs) == [fetched |-> fetched, docs |-> docs]
LabelFetches ==
    {LabelFetch("page", docs) :
        docs \in {<<>>, <<LabelFull>>, <<LabelSparse>>, <<LabelNotADict>>}}
        \cup {LabelFetch("HTTPError", <<>>), LabelFetch("returns_None", <<>>)}

LabelCall(ndc, search, fetched, docs, env) ==
    [ndc |-> ndc, search |-> search, fetched |-> fetched, docs |-> docs, env |-> env]
LabelCalls ==
    {LabelCall(None, "q", "page", docs, "ok") :
        docs \in {<<>>, <<LabelFull>>, <<LabelSparse, LabelFull>>, <<LabelNoNdc, LabelNotADict>>}}
        \cup {LabelCall(ndc, None, "page", <<LabelNoNdc>>, "ok") : ndc \in {"n1", "n2"}}
        \cup {LabelCall(None, None, "page", <<>>, "ok"),
              LabelCall("n1", None, "HTTPError", <<>>, "ok"),
              LabelCall("n1", None, "returns_None", <<>>, "ok"),
              LabelCall(None, "q", "page", <<LabelFull>>, "commit_fails")}

LabelJobCalls(db) ==
    {[candidates |-> q, fetches |-> fs, env |-> env] :
        q \in CandidateBatches(db),
        fs \in [1..Min(openfda_label_enrich_batch, Cardinality(MissingLabel(db)))
                    -> LabelFetches],
        env \in {"ok", "commit_fails", "state_fails"}}

\* Each operation runs from its request to its response in one step; req is
\* the operation that has just ended with what it was given, outcome is how
\* it ended.
\* POST /import/openfda/ndc
ImportOpenfdaNdc ==
    /\ runs < MaxRuns
    /\ \E call \in NdcCalls :
          LET r == ImportOpenfdaNdcRun(Db, call)
          IN  /\ drugs' = r.db.drugs
              /\ ingredients' = r.db.ingredients
              /\ diagnoses' = r.db.diagnoses
              /\ synonyms' = r.db.synonyms
              /\ import_state' = r.db.import_state
              /\ req' = [op |-> "import_openfda_ndc", call |-> call]
              /\ outcome' = r.outcome
    /\ runs' = runs + 1
    /\ UNCHANGED <<limiterVars, fetchVars, otherVars>>

\* the scheduled job openfda_ndc_import
RunNdcImportJob ==
    /\ runs < MaxRuns
    /\ \E call \in NdcJobCalls :
          LET r == RunNdcImportJobRun(Db, call)
          IN  /\ drugs' = r.db.drugs
              /\ ingredients' = r.db.ingredients
              /\ diagnoses' = r.db.diagnoses
              /\ synonyms' = r.db.synonyms
              /\ import_state' = r.db.import_state
              /\ req' = [op |-> "run_ndc_import_job", call |-> call]
              /\ outcome' = r.outcome
    /\ runs' = runs + 1
    /\ UNCHANGED <<limiterVars, fetchVars, otherVars>>

\* POST /import/clinicaltables/conditions
ImportClinicaltablesConditions ==
    /\ runs < MaxRuns
    /\ \E call \in DiagCalls :
          LET r == ImportClinicaltablesConditionsRun(Db, call)
          IN  /\ drugs' = r.db.drugs
              /\ ingredients' = r.db.ingredients
              /\ diagnoses' = r.db.diagnoses
              /\ synonyms' = r.db.synonyms
              /\ import_state' = r.db.import_state
              /\ req' = [op |-> "import_clinicaltables_conditions", call |-> call]
              /\ outcome' = r.outcome
    /\ runs' = runs + 1
    /\ UNCHANGED <<limiterVars, fetchVars, otherVars>>

\* POST /import/openfda/label
ImportOpenfdaLabel ==
    /\ runs < MaxRuns
    /\ \E call \in LabelCalls :
          LET r == ImportOpenfdaLabelRun(Db, call)
          IN  /\ drugs' = r.db.drugs
              /\ ingredients' = r.db.ingredients
              /\ diagnoses' = r.db.diagnoses
              /\ synonyms' = r.db.synonyms
              /\ import_state' = r.db.import_state
              /\ req' = [op |-> "import_openfda_label", call |-> call]
              /\ outcome' = r.outcome
    /\ runs' = runs + 1
    /\ UNCHANGED <<limiterVars, fetchVars, otherVars>>

\* the scheduled job openfda_label_enrich
RunLabelEnrichJob ==
    /\ runs < MaxRuns
    /\ \E call \in LabelJobCalls(Db) :
          LET r == RunLabelEnrichJobRun(Db, call)
          IN  /\ drugs' = r.db.drugs
              /\ ingredients' = r.db.ingredients
              /\ diagnoses' = r.db.diagnoses
              /\ synonyms' = r.db.synonyms
              /\ import_state' = r.db.import_state
              /\ req' = [op |-> "run_label_enrich_job", call |-> call]
              /\ outcome' = r.outcome
    /\ runs' = runs + 1
    /\ UNCHANGED <<limiterVars, fetchVars, otherVars>>

Next ==
    \/ ImportOpenfdaNdc
    \/ RunNdcImportJob
    \/ ImportClinicaltablesConditions
    \/ ImportOpenfdaLabel
    \/ RunLabelEnrichJob

\* the shared limiter with its callers idle, and no fetch_json call running
InitLimiter ==
    /\ \E q \in ConfiguredQps, b \in ConfiguredBurst :
          /\ qps = NewLimiter(q, b).qps
          /\ capacity = NewLimiter(q, b).capacity
          /\ tokens = NewLimiter(q, b).tokens
          /\ last = NewLimiter(q, b).last
    /\ now = 0
    /\ thr = [t \in Threads |-> IdleThread]
    /\ grants = 0
    /\ grantLog = <<>>
    /\ retry_max = 1
    /\ retry_base = 1
    /\ f = FetchIdle
    /\ requests = 0
    /\ acquires = 0
    /\ delays = <<>>
    /\ drugs = <<>>
    /\ ingredients = <<>>
    /\ diagnoses = <<>>
    /\ synonyms = <<>>
    /\ import_state = [k \in StateKeys |-> NoValue]
    /\ req = NoRequest
    /\ outcome = None
    /\ runs = 0
    /\ state_rows = <<>>
    /\ state_call = NoStateCall
    /\ state_set = [k \in StateKeys |-> None]
    /\ jobs = [j \in JobIds |-> JobAtRest]
    /\ selected = {}

\* the shared limiter as __init__ leaves it, each thread about to make the
\* last of its calls
InitAcquire ==
    /\ \E q \in ConfiguredQps, b \in ConfiguredBurst :
          /\ qps = NewLimiter(q, b).qps
          /\ capacity = NewLimiter(q, b).capacity
          /\ tokens = NewLimiter(q, b).tokens
          /\ last = NewLimiter(q, b).last
    /\ now = 0
    /\ thr = [t \in Threads |-> [IdleThread EXCEPT !.calls = MaxCalls - 1]]
    /\ grants = 0
    /\ grantLog = <<>>
    /\ retry_max = 1
    /\ retry_base = 1
    /\ f = FetchIdle
    /\ requests = 0
    /\ acquires = 0
    /\ delays = <<>>
    /\ drugs = <<>>
    /\ ingredients = <<>>
    /\ diagnoses = <<>>
    /\ synonyms = <<>>
    /\ import_state = [k \in StateKeys |-> NoValue]
    /\ req = NoRequest
    /\ outcome = None
    /\ runs = 0
    /\ state_rows = <<>>
    /\ state_call = NoStateCall
    /\ state_set = [k \in StateKeys |-> None]
    /\ jobs = [j \in JobIds |-> JobAtRest]
    /\ selected = {}

\* one caller of fetch_json, for each configuration of limiter and retries
InitFetch ==
    /\ \E q \in ConfiguredQps, b \in ConfiguredBurst :
          /\ qps = NewLimiter(q, b).qps
          /\ capacity = NewLimiter(q, b).capacity
          /\ tokens = NewLimiter(q, b).tokens
          /\ last = NewLimiter(q, b).last
    /\ now = 0
    /\ thr = [t \in Threads |-> IdleThread]
    /\ grants = 0
    /\ grantLog = <<>>
    /\ retry_max \in 1..MaxRetry
    /\ retry_base \in 1..MaxBase
    /\ f = FetchIdle
    /\ requests = 0
    /\ acquires = 0
    /\ delays = <<>>
    /\ drugs = <<>>
    /\ ingredients = <<>>
    /\ diagnoses = <<>>
    /\ synonyms = <<>>
    /\ import_state = [k \in StateKeys |-> NoValue]
    /\ req = NoRequest
    /\ outcome = None
    /\ runs = 0
    /\ state_rows = <<>>
    /\ state_call = NoStateCall
    /\ state_set = [k \in StateKeys |-> None]
    /\ jobs = [j \in JobIds |-> JobAtRest]
    /\ selected = {}

\* an empty database, the limiter and fetch_json at rest
Init ==
    /\ qps = NewLimiter(10, 1).qps
    /\ capacity = NewLimiter(10, 1).capacity
    /\ tokens = NewLimiter(10, 1).tokens
    /\ last = NewLimiter(10, 1).last
    /\ now = 0
    /\ thr = [t \in Threads |-> IdleThread]
    /\ grants = 0
    /\ grantLog = <<>>
    /\ retry_max = 1
    /\ retry_base = 1
    /\ f = FetchIdle
    /\ requests = 0
    /\ acquires = 0
    /\ delays = <<>>
    /\ drugs = <<>>
    /\ ingredients = <<>>
    /\ diagnoses = <<>>
    /\ synonyms = <<>>
    /\ import_state = [k \in StateKeys |-> NoValue]
    /\ req = NoRequest
    /\ outcome = None
    /\ runs = 0
    /\ state_rows = <<>>
    /\ state_call = NoStateCall
    /\ state_set = [k \in StateKeys |-> None]
    /\ jobs = [j \in JobIds |-> JobAtRest]
    /\ selected = {}

SpecLimiter == InitLimiter /\ [][NextLimiter]_vars
SpecFetch == InitFetch /\ [][NextFetch]_vars
\* the callers of the limiter with a clock that does not stop while a caller
\* sleeps, every thread inside acquire() being scheduled again and again
SpecAcquire ==
    /\ InitAcquire
    /\ [][NextLimiter \/ SleepThrough]_vars
    /\ \A t \in Threads : WF_vars(Step(t))
    /\ WF_vars(Tick)
    /\ WF_vars(SleepThrough)
Spec == Init /\ [][Next]_vars

(***************************************************************************)
(* Properties of fetch_json, checked under SpecFetch                       *)
(***************************************************************************)
Throttled == {"429", "503"}
Raised == {"HTTPError", "ValueError", "JSONDecodeError"}

\* a Retry-After header that is an integer number of seconds, and its value
IntegerSeconds(ra) == ra \in {"0", "2"}
SecondsOf(ra) == CASE ra = "0" -> 0 [] ra = "2" -> 2

\* C4: a 4xx status other than 429 is terminal: after such a response the
\* call has raised to its caller, with no sleep and no further attempt.
C4_TerminalStatusNotRetried ==
    f.resp.kind = "404" => (f.pc = "done" /\ f.outcome = "HTTPError")

\* C5: a call that ends without any 200 response ends by raising; it never
\* returns normally without a decoded payload.
C5_ExhaustionRaises ==
    (f.pc = "done" /\ \A i \in 1..Len(f.hist) : f.hist[i].kind # "200")
        => f.outcome \in Raised

\* C6: a call issues at most http_retry_max requests; a retryable failure
\* (429, 5xx, transport error) on an attempt below http_retry_max is followed
\* by another attempt; the call ends only on a 200 or on the last attempt.
C6_BudgetAndRetry ==
    /\ requests <= retry_max
    /\ (f.resp.kind \in Throttled \cup {"neterr"} /\ f.attempt < retry_max)
          => f.pc # "done"
    /\ f.pc = "done" => (f.resp.kind \in {"200", "200bad"} \/ f.attempt = retry_max)

\* C7: every request follows an acquire() of its own: the acquire() calls of
\* a fetch are its requests, plus one while a granted token waits for its
\* request to go out.
C7_AcquireBeforeEveryRequest ==
    /\ acquires = requests + (IF f.pc = "request" THEN 1 ELSE 0)
    /\ requests = Len(f.hist)

C7_Witness == f.pc = "done" /\ requests = 3 /\ f.outcome = "payload"

\* C8: after a 429 or 5xx the call sleeps, for the Retry-After value when the
\* header is an integer number of seconds and for the current backoff
\* otherwise; 429 with Retry-After: 2 and then 200 succeeds after one sleep of
\* 2 seconds and one retry.
C8_DelayAfterThrottle ==
    /\ (f.resp.kind \in Throttled /\ Len(delays) < Len(f.hist))
          => /\ f.pc = "sleep"
             /\ f.delay = IF IntegerSeconds(f.resp.ra) THEN SecondsOf(f.resp.ra)
                                                      ELSE f.backoff
    /\ (/\ Len(f.hist) = 2
        /\ f.hist[1] = [kind |-> "429", ra |-> "2"]
        /\ f.hist[2].kind = "200")
          => (f.outcome = "payload" /\ delays = <<2>> /\ requests = 2)

\* no response of the call carried a usable Retry-After value
NoOverride ==
    \A i \in 1..Len(f.hist) :
        ~(f.hist[i].kind \in Throttled /\ IntegerSeconds(f.hist[i].ra))

\* C9: without a Retry-After override the delays slept in one call start at
\* http_retry_base_seconds and each is at least double the one before.
C9_BackoffDoubles ==
    NoOverride =>
        /\ Len(delays) >= 1 => delays[1] = retry_base
        /\ \A i \in 1..(Len(delays) - 1) :
              delays[i + 1] >= 2 * delays[i] /\ delays[i + 1] >= delays[i]

C9_Witness ==
    /\ NoOverride
    /\ Len(delays) >= 2
    /\ \E i, j \in 1..Len(f.hist) : f.hist[i].kind = "429" /\ f.hist[j].kind = "neterr"

(***************************************************************************)
(* Properties of RateLimiter.acquire, checked under SpecLimiter            *)
(***************************************************************************)
\* C10: under concurrent callers the token count is never negative and the
\* tokens granted, with those left, never exceed the tokens that were
\* available: the initial burst and the refill of the time that has passed.
C10_AcquireAtomic ==
    /\ tokens >= 0
    /\ grants * OneToken + tokens <= capacity + qps * now

(***************************************************************************)
(* The imports: idempotence, natural keys, merging                         *)
(***************************************************************************)
UpsertOps == {"import_openfda_ndc", "run_ndc_import_job", "import_clinicaltables_conditions"}
NdcOps == {"import_openfda_ndc", "run_ndc_import_job"}
Envs == {"ok", "commit_fails", "state_fails"}

\* the entity rows and the child rows
Tables(db) == <<db.drugs, db.ingredients, db.diagnoses, db.synonyms>>

\* the operation that has just ended, run once more on the store as it is
\* now with the same upstream answer
Again(env) ==
    LET call == [req.call EXCEPT !.env = env]
    IN  CASE req.op = "import_openfda_ndc" -> ImportOpenfdaNdcRun(Db, call)
          [] req.op = "run_ndc_import_job" -> RunNdcImportJobRun(Db, call)
          [] OTHER -> ImportClinicaltablesConditionsRun(Db, call)

\* C1: after an import has put a page through (the database did not refuse
\* the run for a reason of its own, the process was not killed before the
\* commit), putting the same page through the same
\* import again leaves the drugs, ingredients, diagnoses and synonyms exactly
\* as they are: no row more, no row changed.
C1_SecondRunChangesNothing ==
    (req.op \in UpsertOps /\ req.call.env \notin {"commit_fails", "crash_before_commit"})
        => \A env \in Envs : Tables(Again(env).db) = Tables(Db)

C1_Witness ==
    /\ req.op = "run_ndc_import_job"
    /\ outcome = "ok"
    /\ req.call.page = <<NdcFull, NdcNullStrength>>
    /\ Len(drugs) = 2
    /\ Len(ingredients) = 2
    /\ Len(synonyms) = 2
    /\ Again("ok").outcome = "ok"

\* a record the NDC loop takes without an exception, with no ingredient
\* listed twice
CleanNdcItem(item) ==
    /\ item.shape = "dict"
    /\ ~Falsy(item.product_ndc)
    /\ item.active_ingredients.t # "int"
    /\ \A a, b \in 1..Len(item.active_ingredients.l) :
          a # b => item.active_ingredients.l[a] # item.active_ingredients.l[b]
\* an entry the conditions loop does not skip, with no synonym listed twice
CleanDiagEntry(entry) ==
    /\ ~Falsy(entry.name)
    /\ ~Falsy(first_code(entry.icd10))
    /\ LET l == normalize_synonyms(entry.synonyms).l
       IN  \A a, b \in 1..Len(l) : a # b => l[a] # l[b]
DiagnosisKeys(tbl) == [i \in 1..Len(tbl) |-> <<tbl[i].condition_name, tbl[i].icd10_code>>]
\* the rows that carry this key
RowsWith(keys, k) == {i \in 1..Len(keys) : keys[i] = k}

\* C2: no two drugs share an ndc and no two diagnoses share (condition name,
\* ICD-10 code); and an import of a page of clean records, two of which may
\* carry the same key, succeeds and leaves exactly one entity for every key
\* of the page.
C2_OneEntityPerNaturalKey ==
    /\ Distinct(DrugKeys(drugs))
    /\ Distinct(DiagnosisKeys(diagnoses))
    /\ (/\ req.op \in NdcOps
        /\ req.call.fetched = "page"
        /\ req.call.env = "ok"
        /\ \A k \in 1..Len(req.call.page) : CleanNdcItem(req.call.page[k]))
          => /\ outcome = "ok"
             /\ \A k \in 1..Len(req.call.page) :
                   Cardinality(RowsWith(DrugKeys(drugs), req.call.page[k].product_ndc)) = 1
    /\ (/\ req.op = "import_clinicaltables_conditions"
        /\ req.call.fetched = "page"
        /\ req.call.env = "ok"
        /\ \A k \in 1..Len(req.call.page) : CleanDiagEntry(req.call.page[k]))
          => /\ outcome = "ok"
             /\ \A k \in 1..Len(req.call.page) :
                   Cardinality(RowsWith(DiagnosisKeys(diagnoses),
                       <<req.call.page[k].name, first_code(req.call.page[k].icd10)>>)) = 1

DrugFields ==
    {"product_name", "generic_name", "manufacturer", "dosage_form",
     "route_of_administration", "indications_and_usage", "adverse_reactions", "warnings"}
DiagnosisFields == {"icd9_code", "synonyms", "description"}

\* what a record of the NDC feed provides for the fields it can enrich
Provided(item) ==
    [generic_name |-> item.generic_name,
     dosage_form |-> item.dosage_form,
     route_of_administration |-> RouteOfAdministration(item)]

\* the records of the page that carry this ndc
ItemsFor(page, ndc) ==
    {k \in 1..Len(page) : page[k].shape = "dict" /\ page[k].product_ndc = ndc}

\* C3: in every step, no field of an existing drug or diagnosis that holds a
\* value becomes null; and when an NDC import that succeeds merges the one
\* record of its page that carries the key of an existing drug, each field
\* the record provides is set to it and each field it does not provide keeps
\* its value.
C3_EnrichDontErase ==
    [][ /\ \A i \in 1..Len(drugs) : \A fld \in DrugFields :
              ~Falsy(drugs[i][fld]) => drugs'[i][fld] # None
        /\ \A i \in 1..Len(diagnoses) : \A fld \in DiagnosisFields :
              ~Falsy(diagnoses[i][fld]) => diagnoses'[i][fld] # None
        /\ (req'.op \in NdcOps /\ outcome' = "ok")
              => \A i \in 1..Len(drugs) :
                    \A k \in ItemsFor(req'.call.page, drugs[i].ndc) :
                       (Cardinality(ItemsFor(req'.call.page, drugs[i].ndc)) = 1)
                          => \A fld \in DOMAIN Provided(req'.call.page[k]) :
                                drugs'[i][fld] =
                                   IF Falsy(Provided(req'.call.page[k])[fld])
                                   THEN drugs[i][fld]
                                   ELSE Provided(req'.call.page[k])[fld]
      ]_vars

(***************************************************************************)
(* The limiter: rate bound, termination                                    *)
(***************************************************************************)
\* C11: in every window of time, the acquire() calls that return within it
\* are at most burst + qps * (length of the window): for any two returns,
\* the returns from the first to the second, both counted, cost no more
\* units than the capacity plus the refill of the time between them.
C11_WindowBound ==
    \A i, j \in 1..Len(grantLog) :
        i <= j => (j - i + 1) * OneToken <= capacity + qps * (grantLog[j] - grantLog[i])

\* the division of line 282 has a positive divisor and the bucket holds a token
NeverRaises == qps >= QpsFloor /\ capacity >= OneToken
\* the step in which a call returns takes one token from the bucket
ReturnConsumesOne == grants' = grants + 1 => tokens' = tokens - OneToken
\* every call returns
EveryCallReturns == \A t \in Threads : (thr[t].pc # "idle") ~> (thr[t].pc = "idle")

\* C12: whatever rate and burst are configured (zero and negative ones
\* included), acquire() never divides by a rate that is not positive, every
\* call of it returns, and the call that returns has taken exactly one token
\* from the bucket.
C12_AcquireReturns ==
    /\ []NeverRaises
    /\ [][ReturnConsumesOne]_vars
    /\ EveryCallReturns

(***************************************************************************)
(* run_ndc_import_job: the cursor                                          *)
(***************************************************************************)
NdcJob == "run_ndc_import_job"
Cursor == "openfda_ndc_skip"
\* the page size the job asks the upstream for
PageSize == Min(openfda_ndc_limit, 100)
\* the skip a run of the job starts from, in the store as it is now
StoredSkip == IF import_state[Cursor].set THEN import_state[Cursor].v ELSE 0

\* C13: a run of run_ndc_import_job that ends without an exception leaves
\* the cursor at 0 when its page had fewer records than the page size, and
\* at the cursor it started from (0 when none was stored) plus the page size
\* when the page was full.
C13_CursorWrapOrAdvance ==
    [][ (req'.op = NdcJob /\ outcome' = "ok")
          => import_state'[Cursor] =
                Value(IF Len(req'.call.page) < PageSize THEN 0 ELSE StoredSkip + PageSize)
      ]_vars

C13_Witness ==
    /\ req.op = NdcJob
    /\ outcome = "ok"
    /\ Len(req.call.page) = PageSize
    /\ import_state[Cursor] = Value(2 * PageSize)

\* C14: a run of run_ndc_import_job whose fetch fails (an exception of
\* fetch_json, or its return without a payload after the last attempt) does
\* not end well and leaves the cursor, the drugs, the ingredients, the
\* diagnoses and the synonyms as they were: the next run starts from the
\* same skip.
C14_FetchFailureLeavesCursor ==
    [][ (req'.op = NdcJob /\ req'.call.fetched # "page")
          => /\ outcome' # "ok"
             /\ import_state'[Cursor] = import_state[Cursor]
             /\ <<drugs', ingredients', diagnoses', synonyms'>> =
                   <<drugs, ingredients, diagnoses, synonyms>>
      ]_vars

C14_Witness ==
    /\ req.op = NdcJob
    /\ req.call.fetched = "returns_None"
    /\ outcome = "AttributeError"
    /\ import_state[Cursor] = Value(PageSize)
    /\ Len(drugs) = 2

\* the page of a call put through the loop of the job on the store as it
\* is, and the store after the commit of line 902
Looped(call) == NdcJobLoop(Db, NewSession(Db), call.page)
Committed(call) == CommitDrugs(Db, Looped(call), "ok")

\* C15: whenever a step of run_ndc_import_job changes the stored cursor,
\* however the run ends (an exception, the process killed), the loop over
\* the page and its commit have gone through and the drugs and ingredients
\* of the store are those of the committed page.
C15_CursorAfterCommit ==
    [][ (req'.op = NdcJob /\ import_state'[Cursor] # import_state[Cursor])
          => /\ req'.call.fetched = "page"
             /\ Looped(req'.call).raised = None
             /\ Committed(req'.call).raised = None
             /\ drugs' = Committed(req'.call).db.drugs
             /\ ingredients' = Committed(req'.call).db.ingredients
      ]_vars

C15_Witness ==
    /\ req.op = NdcJob
    /\ req.call.env = "crash_after_cursor"
    /\ outcome = "killed"
    /\ import_state[Cursor] = Value(PageSize)
    /\ ~import_state["stats:job_openfda_ndc"].set
    /\ Len(drugs) = 2

(***************************************************************************)
(* A page: all or nothing, malformed records, children, statistics         *)
(***************************************************************************)
\* the commit of the page of the run that has just ended was reached and
\* raised, seen from the store before the run
CommitFailed(op, call) ==
    CASE op = "import_openfda_ndc" ->
            /\ call.fetched = "page"
            /\ CommitDrugs(Db, NdcEndpointLoop(Db, NewSession(Db), call.page),
                           call.env).raised # None
      [] op = NdcJob ->
            /\ call.fetched = "page"
            /\ Looped(call).raised = None
            /\ call.env # "crash_before_commit"
            /\ CommitDrugs(Db, Looped(call), call.env).raised # None
      [] op = "import_clinicaltables_conditions" ->
            /\ call.fetched = "page"
            /\ CommitDiagnoses(Db, ConditionLoop(NewDiagSession(Db), call.page),
                               call.env).raised # None
      [] op = "import_openfda_label" ->
            /\ ~(Falsy(call.ndc) /\ Falsy(call.search))
            /\ call.fetched = "page"
            /\ call.env = "commit_fails"
      [] OTHER -> call.env = "commit_fails"

\* C16: when the commit of the page of an import run fails, no row of any
\* table is added or changed, the run ends in an exception, and the cursor
\* of the job stays where it was.
C16_PageAllOrNothing ==
    [][ CommitFailed(req'.op, req'.call)
          => /\ <<drugs', ingredients', diagnoses', synonyms'>> =
                   <<drugs, ingredients, diagnoses, synonyms>>
             /\ outcome' \in {"IntegrityError", "OperationalError", "PendingRollbackError"}
             /\ import_state'[Cursor] = import_state[Cursor]
      ]_vars

C16_Witness ==
    /\ req.op = NdcJob
    /\ req.call.page = <<NdcRepeatedIngredient>>
    /\ outcome = "IntegrityError"
    /\ Len(drugs) = 1
    /\ Len(ingredients) = 1
    /\ import_state[Cursor] = Value(0)

\* the points at which the process can be killed during a run of the job
Crashes == {"crash_before_commit", "crash_after_commit", "crash_after_cursor"}
SkipOf(db) == IF HasState(db, Cursor) THEN GetState(db, Cursor) ELSE 0
EntityState(db) == <<db.drugs, db.ingredients, SkipOf(db)>>
\* the store after the step
DbAfter ==
    [drugs |-> drugs', ingredients |-> ingredients', diagnoses |-> diagnoses',
     synonyms |-> synonyms', import_state |-> import_state']

\* the pages the upstream may hold after the page of the run
NextPages == {<<>>, <<NdcSparse>>, <<NdcSparse, NdcFull>>, <<NdcNotADict, NdcFull>>}

\* C17: take any run of run_ndc_import_job that is given a page, and an
\* upstream that does not change: it answers the skip of this run with this
\* page and any other skip with some page P2 of NextPages.  If the process is killed
\* during the run (before the commit, between the commit and the cursor
\* write, or between the cursor write and the stats write) and the job then
\* runs again from the stored cursor, the drugs, the ingredients and the
\* cursor are those of an execution that was not interrupted: of this run
\* alone when the cursor had not been written, of this run and the next one
\* when it had.
C17_CrashThenRerun ==
    [][ (req'.op = NdcJob /\ req'.call.fetched = "page" /\ req'.call.env = "ok")
          => LET P1 == req'.call.page
                 once == DbAfter
                 Again1(crash) ==
                     RunNdcImportJobRun(RunNdcImportJobRun(Db, PageCall(P1, crash)).db,
                                        PageCall(P1, "ok")).db
                 moved == RunNdcImportJobRun(Db, PageCall(P1, "crash_after_cursor")).db
                 Upstream(db, P2) == IF SkipOf(db) = SkipOf(Db) THEN P1 ELSE P2
                 Run(db, P2) == RunNdcImportJobRun(db, PageCall(Upstream(db, P2), "ok")).db
             IN  /\ \A crash \in Crashes \ {"crash_after_cursor"} :
                       EntityState(Again1(crash)) = EntityState(once)
                 /\ \A P2 \in NextPages :
                       EntityState(Run(moved, P2)) = EntityState(Run(once, P2))
      ]_vars

C17_Witness ==
    /\ req.op = NdcJob
    /\ req.call.env = "crash_after_commit"
    /\ outcome = "killed"
    /\ Len(drugs) = 2
    /\ Len(ingredients) = 2
    /\ ~import_state[Cursor].set
    /\ RunNdcImportJobRun(Db, PageCall(req.call.page, "ok")).outcome = "ok"

\* the exceptions that the shape of one record raises while it is processed
RecordErrors == {"AttributeError", "TypeError", "ValueError"}

\* C18: in import_openfda_ndc, run_ndc_import_job and
\* import_clinicaltables_conditions, no run that was given a page ends with
\* the exception of one of its records: the record is skipped and the run
\* goes on to the commit.
C18_MalformedRecordSkipped ==
    [][ (req'.op \in UpsertOps /\ req'.call.fetched = "page")
          => outcome' \notin RecordErrors ]_vars

\* a record of the NDC feed that the loop takes without an exception
TakenNdcItem(item) ==
    item.shape = "dict" /\ ~Falsy(item.product_ndc) /\ item.active_ingredients.t # "int"
\* an entry of the conditions feed that the loop does not skip
TakenDiagEntry(entry) == ~Falsy(entry.name) /\ ~Falsy(first_code(entry.icd10))
\* (owner, name, strength) of every ingredient row, a null strength included
AllIngredientKeys(ings) == [i \in 1..Len(ings) |-> <<ings[i].ndc, ings[i].name, ings[i].strength>>]

\* C19: an import of a page of one record, which the loop takes, succeeds
\* whatever children the record lists (one listed twice, one already
\* stored), and afterwards no two ingredient rows share (ndc, name, strength)
\* and no two synonym rows share (diagnosis, synonym).
C19_SameChildOnce ==
    [][ (/\ req'.op \in UpsertOps
         /\ req'.call.fetched = "page"
         /\ req'.call.env = "ok"
         /\ Len(req'.call.page) = 1
         /\ IF req'.op \in NdcOps THEN TakenNdcItem(req'.call.page[1])
                                  ELSE TakenDiagEntry(req'.call.page[1]))
          => /\ outcome' = "ok"
             /\ Distinct(AllIngredientKeys(ingredients'))
             /\ Distinct(SynonymKeys(synonyms'))
      ]_vars

\* the operations that write a stats:<job> key after their commit
StatsOps ==
    {"import_openfda_ndc", "import_clinicaltables_conditions",
     "run_ndc_import_job", "run_label_enrich_job"}
\* the run in which everything succeeds up to the write of the stats key,
\* and that write fails
StatsWriteFails(r) ==
    r.call.env = IF r.op = NdcJob THEN "stats_fails" ELSE "state_fails"

\* C20: when the page is committed and the write of the stats:<job> key
\* then fails, the import or the job still ends without an exception.
C20_StatsFailureNotFatal ==
    [][ (req'.op \in StatsOps /\ StatsWriteFails(req')) => outcome' = "ok" ]_vars

(***************************************************************************)
(* The run statistics, the state store, the two paths of the NDC import    *)
(***************************************************************************)
\* the key under which each import persists its statistics
StatsKeyOf(op) ==
    CASE op = "import_openfda_ndc" -> "stats:openfda_ndc"
      [] op = "run_ndc_import_job" -> "stats:job_openfda_ndc"
      [] op = "import_clinicaltables_conditions" -> "stats:clinicaltables_conditions"
      [] OTHER -> "stats:job_openfda_label"
\* a record of the NDC feed without its natural key
KeyLess(item) == item.shape = "dict" /\ Falsy(item.product_ndc)
KeyLessIn(page) == {k \in 1..Len(page) : KeyLess(page[k])}
\* a page of new records: each lacks the key or is well formed, and the
\* keys are pairwise different and not in the drugs table
NewRecords(page, tbl) ==
    /\ \A k \in 1..Len(page) : KeyLess(page[k]) \/ CleanNdcItem(page[k])
    /\ \A k \in 1..Len(page) : ~KeyLess(page[k]) =>
          /\ FindDrug(tbl, page[k].product_ndc) = 0
          /\ Cardinality(ItemsFor(page, page[k].product_ndc)) = 1

\* C21: after an NDC import (request handler or job) of a page of n new
\* records, k of them without product_ndc, the statistics of the run say
\* received = n, imported = n - k, skipped = k, and hold an empty error
\* list.
C21_SkippedNotError ==
    [][ (/\ req'.op \in NdcOps
         /\ req'.call.fetched = "page"
         /\ req'.call.env = "ok"
         /\ NewRecords(req'.call.page, drugs))
          => LET n == Len(req'.call.page)
                 k == Cardinality(KeyLessIn(req'.call.page))
                 s == import_state'[StatsKeyOf(req'.op)]
             IN  /\ outcome' = "ok"
                 /\ s.set
                 /\ s.v.received = n
                 /\ s.v.imported = n - k
                 /\ "skipped" \in DOMAIN s.v /\ s.v.skipped = k
                 /\ "errors" \in DOMAIN s.v /\ s.v.errors = <<>>
      ]_vars

\* the statistics that carry an error list
WithErrors ==
    {k \in StateKeys \ {Cursor} :
        import_state[k].set /\ "errors" \in DOMAIN import_state[k].v}

\* C22: the statistics an import persists hold at most five error messages,
\* however many records of the page raised.
C22_AtMostFiveErrors ==
    \A k \in WithErrors : Len(import_state[k].v.errors) <= 5

C22_Witness ==
    /\ req.op = "import_openfda_ndc"
    /\ req.call.page = NdcSixMalformed
    /\ outcome = "ok"
    /\ import_state["stats:openfda_ndc"].set
    /\ import_state["stats:openfda_ndc"].v.skipped = 6
    /\ Len(import_state["stats:openfda_ndc"].v.errors) = 5

\* the counts that both paths of the NDC import report
Counts(db, key) ==
    [received |-> GetState(db, key).received, imported |-> GetState(db, key).imported,
     updated |-> GetState(db, key).updated]

\* C25: whenever the request handler import_openfda_ndc has put a page
\* through, the job run_ndc_import_job, given the same store and the same
\* page, ends the same way, leaves the same drugs and ingredients, and
\* reports the same received, imported and updated counts.
C25_SamePipeline ==
    [][ (req'.op = "import_openfda_ndc" /\ req'.call.fetched = "page"
                                        /\ req'.call.env = "ok")
          => LET b == RunNdcImportJobRun(Db, req'.call)
             IN  /\ drugs' = b.db.drugs
                 /\ ingredients' = b.db.ingredients
                 /\ (outcome' = "ok") <=> (b.outcome = "ok")
                 /\ (outcome' = "ok" /\ b.outcome = "ok")
                       => Counts(DbAfter, "stats:openfda_ndc")
                             = Counts(b.db, "stats:job_openfda_ndc")
      ]_vars

LabelOps == {"import_openfda_label", "run_label_enrich_job"}
LabelFields == {"indications_and_usage", "adverse_reactions", "warnings"}
ProductFields ==
    {"product_name", "generic_name", "manufacturer", "dosage_form",
     "route_of_administration"}

\* C26: the writers of a drug keep to their own fields, so that any order
\* of a label enrichment and an NDC import leaves both their writes in the
\* row: no step of an NDC import changes a label field of a stored drug, and
\* no step of a label enrichment changes a product field.
C26_WritersConverge ==
    [][ /\ req'.op \in NdcOps =>
              \A i \in 1..Len(drugs) : \A fld \in LabelFields :
                  drugs'[i][fld] = drugs[i][fld]
        /\ req'.op \in LabelOps =>
              \A i \in 1..Len(drugs) : \A fld \in ProductFields :
                  drugs'[i][fld] = drugs[i][fld]
      ]_vars

\* C27: only run_ndc_import_job changes the key openfda_ndc_skip: every
\* step of another operation, its statistics write included, leaves the
\* cursor as it is.
C27_CursorSingleWriter ==
    [][ req'.op # NdcJob => import_state'[Cursor] = import_state[Cursor] ]_vars

C27_Witness ==
    /\ req.op = "import_openfda_ndc"
    /\ outcome = "ok"
    /\ import_state["stats:openfda_ndc"].set
    /\ import_state[Cursor] = Value(PageSize)

\* the statistics of the two request handlers that count skipped records
CountedStats ==
    {k \in {"stats:openfda_ndc", "stats:clinicaltables_conditions"} : import_state[k].set}

\* C28: in the statistics of import_openfda_ndc and
\* import_clinicaltables_conditions every received record is counted once:
\* imported + updated + skipped = received.
C28_CountedOnce ==
    \A k \in CountedStats :
        LET s == import_state[k].v
        IN  s.imported + s.updated + s.skipped = s.received

\* C29: every run of run_ndc_import_job whose fetch succeeds (and that the
\* database and the process let run to its end) commits the page and
\* overwrites the cursor with the wrap/advance value, so that no page the
\* upstream serves can hold the job on its window.
C29_JobMovesOn ==
    [][ (req'.op = NdcJob /\ req'.call.fetched = "page" /\ req'.call.env = "ok")
          => /\ outcome' = "ok"
             /\ import_state'[Cursor] =
                   Value(NextSkip(StoredSkip, Len(req'.call.page), PageSize))
      ]_vars

(***************************************************************************)
(* The state store, row by row                                             *)
(***************************************************************************)
\* the values written in this model: cursors and statistics, as the strings
\* that str() and json.dumps() give
StateValues == {"0", "2", "{}"}

\* lines 834 and 839: filter(ImportStateModel.key == key).first()
StateRow(rows, key) == First({i \in 1..Len(rows) : rows[i].key = key})

\* lines 833-835: _get_state
_get_state(rows, key) ==
    IF StateRow(rows, key) > 0 THEN rows[StateRow(rows, key)].value ELSE None

\* a write that adds a row without looking for the key
_set_state_AlwaysAdds(rows, key, value) == Append(rows, [key |-> key, value |-> value])

\* lines 838-845: _set_state, its commit included
_set_state(rows, key, value) ==
    IF StateRow(rows, key) > 0
    THEN [rows EXCEPT ![StateRow(rows, key)].value = value]
    ELSE Append(rows, [key |-> key, value |-> value])

\* a session of SessionLocal calls _set_state(db, key, value)
SetStateCall ==
    /\ \E key \in StateKeys, value \in StateValues :
          /\ state_rows' = _set_state(state_rows, key, value)
          /\ state_call' = [op |-> "set", key |-> key, value |-> value, result |-> None]
          /\ state_set' = [state_set EXCEPT ![key] = value]
    /\ UNCHANGED <<limiterVars, fetchVars, storeVars, runVars, schedVars, enrichVars>>

\* a session of SessionLocal calls _get_state(db, key)
GetStateCall ==
    /\ \E key \in StateKeys :
          state_call' = [op |-> "get", key |-> key, value |-> None,
                         result |-> _get_state(state_rows, key)]
    /\ UNCHANGED <<state_rows, state_set>>
    /\ UNCHANGED <<limiterVars, fetchVars, storeVars, runVars, schedVars, enrichVars>>

NextState ==
    \/ SetStateCall
    \/ GetStateCall

InitState ==
    /\ qps = NewLimiter(10, 1).qps
    /\ capacity = NewLimiter(10, 1).capacity
    /\ tokens = NewLimiter(10, 1).tokens
    /\ last = NewLimiter(10, 1).last
    /\ now = 0
    /\ thr = [t \in Threads |-> IdleThread]
    /\ grants = 0
    /\ grantLog = <<>>
    /\ retry_max = 1
    /\ retry_base = 1
    /\ f = FetchIdle
    /\ requests = 0
    /\ acquires = 0
    /\ delays = <<>>
    /\ drugs = <<>>
    /\ ingredients = <<>>
    /\ diagnoses = <<>>
    /\ synonyms = <<>>
    /\ import_state = [k \in StateKeys |-> NoValue]
    /\ req = NoRequest
    /\ outcome = None
    /\ runs = 0
    /\ state_rows = <<>>
    /\ state_call = NoStateCall
    /\ state_set = [k \in StateKeys |-> None]
    /\ jobs = [j \in JobIds |-> JobAtRest]
    /\ selected = {}

SpecState == InitState /\ [][NextState]_vars

\* the rows that hold this key
RowsOf(key) == {i \in 1..Len(state_rows) : state_rows[i].key = key}

\* C23: the store holds exactly one row for every key that has been set and
\* none for a key that has not; a _get_state returns the value of the last
\* _set_state of its key, and no value for a key never set.
C23_SetThenGet ==
    /\ \A key \in StateKeys :
          Cardinality(RowsOf(key)) = IF state_set[key] = None THEN 0 ELSE 1
    /\ state_call.op = "get" => state_call.result = state_set[state_call.key]
    /\ state_call.op = "set" => _get_state(state_rows, state_call.key) = state_call.value

C23_Witness ==
    /\ state_call.op = "get"
    /\ state_call.key = "openfda_ndc_skip"
    /\ state_call.result = "2"
    /\ Len(state_rows) = 2

(***************************************************************************)
(* The scheduler: two jobs added with add_job and its defaults             *)
(***************************************************************************)
MaxFirings == 3     \* firings of a job's trigger

\* add_job is called without max_instances (src/scheduler.py:34-35): the
\* scheduler's default of one running instance for a job applies
max_instances == 1

\* a firing that is let through however many instances are running
MayRun_Always(j) == TRUE

\* the executor accepts a run of the job while fewer than max_instances run
MayRun(j) == jobs[j].running < max_instances

\* the trigger of job j fires and the executor starts a run in its pool
FireRuns(j) ==
    /\ jobs[j].fired < MaxFirings
    /\ MayRun(j)
    /\ jobs' = [jobs EXCEPT ![j].fired = @ + 1, ![j].started = @ + 1,
                            ![j].running = @ + 1]
    /\ UNCHANGED <<limiterVars, fetchVars, storeVars, runVars, stateVars, enrichVars>>

\* the trigger of job j fires while the job runs: the firing is dropped
\* with a warning and the next run time is computed as usual
FireSkipped(j) ==
    /\ jobs[j].fired < MaxFirings
    /\ ~MayRun(j)
    /\ jobs' = [jobs EXCEPT ![j].fired = @ + 1, ![j].skipped = @ + 1]
    /\ UNCHANGED <<limiterVars, fetchVars, storeVars, runVars, stateVars, enrichVars>>

\* a run of job j returns or raises
JobReturns(j) ==
    /\ jobs[j].running > 0
    /\ jobs' = [jobs EXCEPT ![j].running = @ - 1]
    /\ UNCHANGED <<limiterVars, fetchVars, storeVars, runVars, stateVars, enrichVars>>

NextScheduler ==
    \E j \in JobIds :
        \/ FireRuns(j)
        \/ FireSkipped(j)
        \/ JobReturns(j)

InitScheduler ==
    /\ qps = NewLimiter(10, 1).qps
    /\ capacity = NewLimiter(10, 1).capacity
    /\ tokens = NewLimiter(10, 1).tokens
    /\ last = NewLimiter(10, 1).last
    /\ now = 0
    /\ thr = [t \in Threads |-> IdleThread]
    /\ grants = 0
    /\ grantLog = <<>>
    /\ retry_max = 1
    /\ retry_base = 1
    /\ f = FetchIdle
    /\ requests = 0
    /\ acquires = 0
    /\ delays = <<>>
    /\ drugs = <<>>
    /\ ingredients = <<>>
    /\ diagnoses = <<>>
    /\ synonyms = <<>>
    /\ import_state = [k \in StateKeys |-> NoValue]
    /\ req = NoRequest
    /\ outcome = None
    /\ runs = 0
    /\ state_rows = <<>>
    /\ state_call = NoStateCall
    /\ state_set = [k \in StateKeys |-> None]
    /\ jobs = [j \in JobIds |-> JobAtRest]
    /\ selected = {}

SpecScheduler == InitScheduler /\ [][NextScheduler]_vars

\* at most one instance of each job, and no firing kept for later
OneInstance ==
    \A j \in JobIds :
        /\ jobs[j].running <= 1
        /\ jobs[j].started + jobs[j].skipped = jobs[j].fired
\* a firing during a run starts nothing, and a run starts only at a firing
SkippedNotQueued ==
    \A j \in JobIds :
        /\ (jobs[j].running = 1 /\ jobs'[j].fired # jobs[j].fired)
              => (jobs'[j].skipped = jobs[j].skipped + 1 /\ jobs'[j].running = 1)
        /\ jobs'[j].started # jobs[j].started => jobs'[j].fired = jobs[j].fired + 1

StoredDrug(ndc, text) ==
    [NewDrug(NdcItem(ndc, "Brand", None, "Lab", None, RouteStr(None), NoIngredients))
        EXCEPT !.indications_and_usage = text,
               !.adverse_reactions = text,
               !.warnings = IF ndc = "n1" THEN None ELSE text]
EnrichNdcs == <<"n1", "n2", "n3">>
\* the drugs tables the firings start from: one to three drugs, each with or
\* without its label text
EnrichStores ==
    UNION {{[i \in 1..n |-> StoredDrug(EnrichNdcs[i], t[i])] : t \in [1..n -> {None, "text"}]}
              : n \in 1..Len(EnrichNdcs)}

\* one firing of the job openfda_label_enrich
EnrichFiring ==
    /\ \E call \in LabelJobCalls(Db) :
          LET r == RunLabelEnrichJobRun(Db, call)
          IN  /\ drugs' = r.db.drugs
              /\ import_state' = r.db.import_state
              /\ req' = [op |-> "run_label_enrich_job", call |-> call]
              /\ outcome' = r.outcome
              /\ selected' = selected \cup
                    {drugs[call.candidates[a]].ndc : a \in DOMAIN call.candidates}
    /\ UNCHANGED <<ingredients, diagnoses, synonyms, runs>>
    /\ UNCHANGED <<limiterVars, fetchVars, stateVars, schedVars>>

NextEnrich == EnrichFiring

InitEnrich ==
    /\ qps = NewLimiter(10, 1).qps
    /\ capacity = NewLimiter(10, 1).capacity
    /\ tokens = NewLimiter(10, 1).tokens
    /\ last = NewLimiter(10, 1).last
    /\ now = 0
    /\ thr = [t \in Threads |-> IdleThread]
    /\ grants = 0
    /\ grantLog = <<>>
    /\ retry_max = 1
    /\ retry_base = 1
    /\ f = FetchIdle
    /\ requests = 0
    /\ acquires = 0
    /\ delays = <<>>
    /\ drugs \in EnrichStores
    /\ ingredients = <<>>
    /\ diagnoses = <<>>
    /\ synonyms = <<>>
    /\ import_state = [k \in StateKeys |-> NoValue]
    /\ req = NoRequest
    /\ outcome = None
    /\ runs = 0
    /\ state_rows = <<>>
    /\ state_call = NoStateCall
    /\ state_set = [k \in StateKeys |-> None]
    /\ jobs = [j \in JobIds |-> JobAtRest]
    /\ selected = {}

\* the trigger of the job fires for ever
SpecEnrich == InitEnrich /\ [][NextEnrich]_vars /\ WF_vars(EnrichFiring)

\* the ndcs of the rows with a label field missing
MissingNdcs == {drugs[i].ndc : i \in MissingLabel(Db)}

\* C30: under repeated firings of run_label_enrich_job, every drug with a
\* label field missing is eventually selected and queried upstream.
C30_EveryDrugSelected ==
    \A n \in {EnrichNdcs[i] : i \in DOMAIN EnrichNdcs} :
        (n \in MissingNdcs) ~> (n \in selected)

=============================================================================
